---- MODULE Spec2Model ----
(***************************************************************************)
(* Model of the youtube-lookup gateway: the three POST handlers of         *)
(* src/src/api/handlers.rs, the upstream-calling functions they await      *)
(* (get_channel, get_playlist_items, get_subscriptions, resolve_url,       *)
(* enrich_channel_data) and the error-to-response mapping of               *)
(* src/src/api/error.rs.                                                   *)
(*                                                                         *)
(* One request is followed from its arrival to its response.  Every await  *)
(* of an upstream call is one step: the action that completes the call     *)
(* draws the upstream's answer from a bounded set, applies the called      *)
(* function to it and runs the handler up to its next await or its return. *)
(* Strings whose structure the code inspects (prefixes, '@', letter case)  *)
(* are sequences of pieces; an Option is the empty or the one-element      *)
(* sequence.                                                               *)
(***************************************************************************)
EXTENDS Integers, Sequences, FiniteSets, TLC

VARIABLES
    pc,        \* where the handler stands: "idle", an await point, "done", "aborted"
    req,       \* the request being served: route and payload
    inflight,  \* the upstream calls issued and not yet answered
    calls,     \* the upstream calls answered so far, in order, each with its answer
    channel,   \* the handler's local `channel` (Option)
    main_channel_id,  \* the Vanity branch's local `main_channel_id` (Option)
    result,    \* the handler's return value (Option of Result)
    response   \* the HTTP response sent to the client (Option)

vars == <<pc, req, inflight, calls, channel, main_channel_id, result, response>>

----------------------------------------------------------------------------
(* Option and Result *)

None == <<>>
Some(x) == <<x>>
IsSome(o) == o # <<>>
Unwrap(o) == o[1]

Ok(v) == [ok |-> TRUE, v |-> v]
Err(e) == [ok |-> FALSE, e |-> e]

----------------------------------------------------------------------------
(* Bounds of the model *)

\* number of distinct browse (channel) identifiers the upstream may answer with
NumBrowseIds == 2
\* longest `items` list in a 200 answer
MaxItems == 2

----------------------------------------------------------------------------
(* YouTubeError (src/src/errors.rs) and ApiError (src/src/api/error.rs) *)

AccountClosed == [kind |-> "AccountClosed"]
AccountTerminated == [kind |-> "AccountTerminated"]
SubscriptionsPrivate == [kind |-> "SubscriptionsPrivate"]
NotFound == [kind |-> "NotFound"]
Ratelimited == [kind |-> "Ratelimited"]
Unauthorized == [kind |-> "Unauthorized"]
Forbidden == [kind |-> "Forbidden"]
InternalServerError == [kind |-> "InternalServerError"]
UnknownStatusCode(status) == [kind |-> "UnknownStatusCode", status |-> status]
\* the detail strings of ParseError and Other are e.to_string(): not modelled
ParseError == [kind |-> "ParseError"]
Other == [kind |-> "Other"]
HttpError == [kind |-> "HttpError"]
LegacyHttpError == [kind |-> "LegacyHttpError"]
ProtobufError == [kind |-> "ProtobufError"]

\* the status codes the upstream answers with in this model
Statuses == {200, 204, 401, 403, 404, 429, 500, 502, 503}

YouTubeError ==
    {AccountClosed, AccountTerminated, SubscriptionsPrivate, NotFound, Ratelimited,
     Unauthorized, Forbidden, InternalServerError, ParseError, Other, HttpError,
     LegacyHttpError, ProtobufError}
    \cup {UnknownStatusCode(s) : s \in Statuses}

ApiYouTubeError(err) == [variant |-> "YouTubeError", err |-> err]
ApiInvalidRequest(msg) == [variant |-> "InvalidRequest", msg |-> msg]
ApiNotFound(msg) == [variant |-> "NotFound", msg |-> msg]

\* impl From<YouTubeError> for ApiError: what `?` does to a YouTubeError
FromYouTubeError(err) == ApiYouTubeError(err)

\* why the Json extractor rejects a body: malformed JSON; well-formed JSON that
\* is no value of the target type (a missing field, an unknown lookup type);
\* no JSON content type
JsonRejections == {"JsonSyntaxError", "JsonDataError", "MissingJsonContentType"}

\* the messages the handlers put into ApiError::NotFound / InvalidRequest
ApiMessages ==
    {"This channel has been terminated", "This channel has been deleted",
     "Channel not found", "Custom URL not found", "Invalid vanity URL",
     "Not a vanity URL", "Invalid custom URL - unexpected URL endpoint"}
    \cup JsonRejections

ApiError ==
    {ApiYouTubeError(e) : e \in YouTubeError}
    \cup {ApiInvalidRequest(m) : m \in ApiMessages}
    \cup {ApiNotFound(m) : m \in ApiMessages}

\* an error response: the status and the JSON body {"error": .., "message": ..}
HttpResponse(status, error, message) ==
    [status |-> status, error |-> error, message |-> message, body |-> None]
\* Ok(Json(v)): status 200 and v as the body
OkResponse(v) == [status |-> 200, error |-> "", message |-> "", body |-> Some(v)]

\* YouTubeErrorResponse without its SubscriptionsPrivate and AccountClosed arms
YouTubeErrorResponseFewerArms(err) ==
    CASE err = NotFound -> HttpResponse(404, "not_found", "Not found")
      [] err = Ratelimited -> HttpResponse(429, "rate_limited", "Rate limited")
      [] err = Unauthorized -> HttpResponse(401, "unauthorized", "Unauthorized")
      [] err = Forbidden -> HttpResponse(403, "forbidden", "Forbidden")
      [] err = InternalServerError ->
            HttpResponse(500, "internal_server_error", "Internal server error")
      [] err = AccountTerminated ->
            HttpResponse(410, "account_terminated", "Account is terminated")
      [] OTHER -> HttpResponse(500, "unknown_error", "Unknown error occurred")

\* the inner match of into_response: YouTubeError -> (status, error_code, message)
YouTubeErrorResponse(err) ==
    CASE err = NotFound -> HttpResponse(404, "not_found", "Not found")
      [] err = Ratelimited -> HttpResponse(429, "rate_limited", "Rate limited")
      [] err = Unauthorized -> HttpResponse(401, "unauthorized", "Unauthorized")
      [] err = Forbidden -> HttpResponse(403, "forbidden", "Forbidden")
      [] err = InternalServerError ->
            HttpResponse(500, "internal_server_error", "Internal server error")
      [] err = AccountClosed -> HttpResponse(410, "account_closed", "Account is closed")
      [] err = AccountTerminated ->
            HttpResponse(410, "account_terminated", "Account is terminated")
      [] err = SubscriptionsPrivate ->
            HttpResponse(403, "subscriptions_private", "Subscriptions are private")
      [] OTHER -> HttpResponse(500, "unknown_error", "Unknown error occurred")

\* into_response answering an InvalidRequest with 422 instead of 400
into_response_unprocessable(e) ==
    CASE e.variant = "YouTubeError" -> YouTubeErrorResponse(e.err)
      [] e.variant = "InvalidRequest" -> HttpResponse(422, "invalid_request", e.msg)
      [] e.variant = "NotFound" -> HttpResponse(404, "not_found", e.msg)

\* impl IntoResponse for ApiError
into_response(e) ==
    CASE e.variant = "YouTubeError" -> YouTubeErrorResponse(e.err)
      [] e.variant = "InvalidRequest" -> HttpResponse(400, "invalid_request", e.msg)
      [] e.variant = "NotFound" -> HttpResponse(404, "not_found", e.msg)

----------------------------------------------------------------------------
(* Strings with structure *)

\* str::starts_with on strings kept as sequences of pieces
StartsWith(s, prefix) ==
    /\ Len(s) >= Len(prefix)
    /\ SubSeq(s, 1, Len(prefix)) = prefix

\* char::to_uppercase on the letters the model's identifiers are made of
UpperChar(c) ==
    CASE c = "a" -> "A"
      [] c = "b" -> "B"
      [] OTHER -> c

\* str::to_uppercase
to_uppercase(s) == [i \in 1..Len(s) |-> UpperChar(s[i])]

\* the 403 messages the code looks for, and the ones the upstream sends in this model
QuotaPrefix == <<"The request cannot be completed because you have exceeded your">>
MsgQuota == QuotaPrefix \o <<" quota.">>
MsgAccountClosed ==
    <<"Subscriptions could not be retrieved because the subscriber's account is closed.">>
MsgAccountSuspended ==
    <<"Subscriptions could not be retrieved because the subscriber's account is suspended.">>
MsgSubscriptionsPrivate ==
    <<"The requester is not allowed to access the requested subscriptions.">>
MsgSuspendedAndMore == MsgAccountSuspended \o <<" Contact support.">>
MsgOther == <<"The caller does not have permission">>

Messages ==
    {QuotaPrefix, MsgQuota, MsgAccountClosed, MsgAccountSuspended,
     MsgSubscriptionsPrivate, MsgSuspendedAndMore, MsgOther}

----------------------------------------------------------------------------
(* What the upstream answers *)

\* client.send() failed: no status, no body
TransportFailure == [net |-> FALSE]
Answer(status, body) == [net |-> TRUE, status |-> status, body |-> body]

\* a body whose stream fails while it is read (resp.text() / resp.json() error);
\* a 204 has no body and is never answered with one
Unreadable == [kind |-> "unreadable"]
\* a body that is read and is not JSON of the shape the caller decodes
NotJson == [kind |-> "text"]
\* a body that is JSON of shape `shape`; an absent field is None
Json(shape, v) == [kind |-> "json", shape |-> shape, v |-> v]

\* resp.text(): fails only when the body cannot be read
text(body) == IF body.kind = "unreadable" THEN Err(ParseError) ELSE Ok(body)

\* {"error": {"message": m}}; ErrorResponse requires error and message
ErrorJson(m) == Json("error", [error_message |-> m])

\* resp.json::<ErrorResponse>()
DecodeErrorResponse(body) ==
    IF body.kind = "json" /\ body.shape = "error" /\ IsSome(body.v.error_message)
    THEN Ok(Unwrap(body.v.error_message))
    ELSE Err(ParseError)

ErrorBodies ==
    {Unreadable, NotJson, ErrorJson(None)} \cup {ErrorJson(Some(m)) : m \in Messages}

\* the statuses at which the Data API operations return without reading the
\* body, and those at which resolve_url does
DataApiBodyUnread == {401, 404, 429, 500, 503}
ResolveBodyUnread == {401, 404}

\* the answers of the Data API (channels, playlistItems, subscriptions) that
\* are not 200; a 403 comes with an error body, and an unreadable body is
\* drawn only where the operation reads it
NonOkAnswers ==
    {TransportFailure}
    \cup {Answer(403, b) : b \in ErrorBodies}
    \cup {Answer(s, NotJson) : s \in Statuses \ {200, 403}}
    \cup {Answer(s, Unreadable) : s \in Statuses \ ({200, 204, 403} \cup DataApiBodyUnread)}

\* the answers of resolve_url's endpoint that are not 200
ResolveNonOkAnswers ==
    {TransportFailure}
    \cup {Answer(s, NotJson) : s \in Statuses \ {200}}
    \cup {Answer(s, Unreadable) : s \in Statuses \ ({200, 204} \cup ResolveBodyUnread)}

BrowseIds == {<<"UC", i>> : i \in 1..NumBrowseIds}

----------------------------------------------------------------------------
(* resolve_url (src/src/youtubei/resolve_url.rs) *)

\* ResolveUrlResult
BrowseEndpoint(browse_id) == [t |-> "BrowseEndpoint", browse_id |-> browse_id]
UrlEndpoint(url) == [t |-> "UrlEndpoint", url |-> url]

\* {"endpoint": {"browseEndpoint": {"browseId": b}, "urlEndpoint": {"url": u}}}
ResolveJson(endpoint) == Json("resolve", [endpoint |-> endpoint])
EndpointJson(browseId, url) == [browseEndpoint |-> browseId, urlEndpoint |-> url]

\* resp.json::<Response>(): `endpoint` is required, and the untagged EndpointType
\* takes the first variant that fits, Browse before Url
DecodeResolveResponse(body) ==
    IF body.kind = "json" /\ body.shape = "resolve" /\ IsSome(body.v.endpoint)
    THEN LET e == Unwrap(body.v.endpoint)
         IN  IF IsSome(e.browseEndpoint)
             THEN Ok(BrowseEndpoint(Unwrap(e.browseEndpoint)))
             ELSE IF IsSome(e.urlEndpoint)
                  THEN Ok(UrlEndpoint(Unwrap(e.urlEndpoint)))
                  ELSE Err(ParseError)
    ELSE Err(ParseError)

\* the match on resp.status() of resolve_url: Ok(TRUE) to go on decoding
ResolveStatus(ans) ==
    CASE ans.status = 200 -> Ok(TRUE)
      [] ans.status = 404 -> Err(NotFound)
      [] ans.status = 401 -> Err(Unauthorized)
      [] OTHER ->
            IF text(ans.body).ok
            THEN Err(UnknownStatusCode(ans.status))
            ELSE Err(ParseError)

\* resolve_url: Result<Option<ResolveUrlResult>, YouTubeError>
resolve_url(ans) ==
    IF ~ans.net THEN Err(Other)
    ELSE IF ~ResolveStatus(ans).ok THEN ResolveStatus(ans)
    ELSE LET d == DecodeResolveResponse(ans.body)
         IN  IF d.ok THEN Ok(Some(d.v)) ELSE d

\* where a redirecting URL leads
RedirectUrls == {<<"http://www.youtube.com/channel/", b>> : b \in BrowseIds}

ResolveOkBodies ==
    {Unreadable, NotJson, ResolveJson(None), ResolveJson(Some(EndpointJson(None, None)))}
    \cup {ResolveJson(Some(EndpointJson(Some(b), None))) : b \in BrowseIds}
    \cup {ResolveJson(Some(EndpointJson(None, Some(u)))) : u \in RedirectUrls}

ResolveAnswers == ResolveNonOkAnswers \cup {Answer(200, b) : b \in ResolveOkBodies}

----------------------------------------------------------------------------
(* get_channel (src/src/youtube/channels.rs) *)

\* a Channel that get_channel hands out with a verification status already in it
ChannelVerifiedAtFetch(user_id, handle) ==
    [user_id |-> user_id,
     handle |-> handle,
     conditional_redirect |-> None,
     no_index |-> None,
     verification |-> Some("None"),
     blocked_countries |-> None]

\* models::Channel, the fields the handlers and the enrichment read or write
Channel(user_id, handle) ==
    [user_id |-> user_id,
     handle |-> handle,
     conditional_redirect |-> None,
     no_index |-> None,
     verification |-> None,
     blocked_countries |-> None]

\* {"items": [{"id": .., "snippet": {"customUrl": ..}}]}
ChannelsJson(items) == Json("channels", [items |-> items])
ApiChannel(id, custom_url) == [id |-> id, custom_url |-> custom_url]

\* resp.json::<ApiResponse>(): ApiChannel.id is required, all else is optional
DecodeChannelsResponse(body) ==
    IF /\ body.kind = "json"
       /\ body.shape = "channels"
       /\ \/ body.v.items = None
          \/ \A i \in 1..Len(Unwrap(body.v.items)) : IsSome(Unwrap(body.v.items)[i].id)
    THEN Ok(body.v)
    ELSE Err(ParseError)

\* ChannelsForbidden with the message arms of the subscriptions fetcher
ChannelsForbiddenWithAccountArms(message) ==
    CASE message = MsgAccountClosed -> AccountClosed
      [] message = MsgAccountSuspended -> AccountTerminated
      [] message = MsgSubscriptionsPrivate -> SubscriptionsPrivate
      [] StartsWith(message, QuotaPrefix) -> Ratelimited
      [] OTHER -> Forbidden

\* the 403 arm of get_channel, on the decoded error message
ChannelsForbidden(message) ==
    IF StartsWith(message, QuotaPrefix) THEN Ratelimited ELSE Forbidden

\* the match on resp.status() of get_channel: Ok(TRUE) to go on decoding
ChannelsStatus(ans) ==
    CASE ans.status = 429 -> Err(Ratelimited)
      [] ans.status = 403 ->
            LET er == DecodeErrorResponse(ans.body)
            IN  IF er.ok THEN Err(ChannelsForbidden(er.v)) ELSE er
      [] ans.status = 404 -> Err(NotFound)
      [] ans.status = 401 -> Err(Unauthorized)
      [] ans.status \in {500, 503} -> Err(InternalServerError)
      [] ans.status = 200 -> Ok(TRUE)
      [] OTHER ->
            IF text(ans.body).ok
            THEN Err(UnknownStatusCode(ans.status))
            ELSE Err(ParseError)

\* str::trim_start_matches('@')
RECURSIVE trim_start_matches_at(_)
trim_start_matches_at(s) ==
    IF s # <<>> /\ Head(s) = "@" THEN trim_start_matches_at(Tail(s)) ELSE s

\* the `handle` of get_channel, from snippet.customUrl
HandleOfCustomUrl(custom_url) ==
    IF IsSome(custom_url) /\ StartsWith(Unwrap(custom_url), <<"@">>)
    THEN Some(trim_start_matches_at(Unwrap(custom_url)))
    ELSE None

\* PopChannel that takes a missing or empty list for a malformed answer
PopChannelOrParseError(items) ==
    IF IsSome(items) /\ Len(Unwrap(items)) > 0
    THEN Ok(Unwrap(items)[Len(Unwrap(items))])
    ELSE Err(ParseError)

\* api_response.items.and_then(|mut items| items.pop()).ok_or(NotFound)
PopChannel(items) ==
    IF IsSome(items) /\ Len(Unwrap(items)) > 0
    THEN Ok(Unwrap(items)[Len(Unwrap(items))])
    ELSE Err(NotFound)

\* get_channel: Result<Channel, YouTubeError>
get_channel(ans) ==
    IF ~ans.net THEN Err(Other)
    ELSE IF ~ChannelsStatus(ans).ok THEN ChannelsStatus(ans)
    ELSE LET d == DecodeChannelsResponse(ans.body)
         IN  IF ~d.ok THEN d
             ELSE LET c == PopChannel(d.v.items)
                  IN  IF ~c.ok THEN c
                      ELSE Ok(Channel(Unwrap(c.v.id), HandleOfCustomUrl(c.v.custom_url)))

Handles == {<<"h", "1">>, <<"h", "2">>}

CustomUrls == {None, Some(<<"@", "h", "1">>), Some(<<"c", "/", "n">>)}

ApiChannels ==
    {ApiChannel(Some(b), cu) : b \in BrowseIds, cu \in CustomUrls}
    \cup {ApiChannel(None, None)}

\* an item that comes before the last one in a longer list
FillerChannel == ApiChannel(Some(<<"UC", 1>>), Some(<<"@", "h", "2">>))

RECURSIVE Fillers(_)
Fillers(n) == IF n = 0 THEN <<>> ELSE <<FillerChannel>> \o Fillers(n - 1)

ChannelsOkBodies ==
    {Unreadable, NotJson, ChannelsJson(None), ChannelsJson(Some(<<>>))}
    \cup {ChannelsJson(Some(<<c>>)) : c \in ApiChannels}
    \cup {ChannelsJson(Some(Fillers(n - 1) \o <<ApiChannel(Some(b), None)>>)) :
            n \in 2..MaxItems, b \in BrowseIds}

ChannelsAnswers == NonOkAnswers \cup {Answer(200, b) : b \in ChannelsOkBodies}

----------------------------------------------------------------------------
(* The list fetchers (src/src/youtube/subscriptions.rs, playlist_items.rs) *)

\* a publishedAt string: whether DateTime::parse_from_rfc3339 accepts it, and
\* the timestamp it then gives
DateString(rfc3339, secs) == [rfc3339 |-> rfc3339, secs |-> secs]

\* {"nextPageToken": .., "items": [{"snippet": {..}}]}
ListJson(shape, next_page_token, items) ==
    Json(shape, [next_page_token |-> next_page_token, items |-> items])
\* an item of either list; resource_id is Option of the Option of its id
ListItem(snippet) == [snippet |-> snippet]
Snippet(published_at, title, resource_id) ==
    [published_at |-> published_at, title |-> title, resource_id |-> resource_id]

\* the 403 arm of get_subscriptions, on the decoded error message
SubscriptionsForbidden(message) ==
    CASE message = MsgAccountClosed -> AccountClosed
      [] message = MsgAccountSuspended -> AccountTerminated
      [] message = MsgSubscriptionsPrivate -> SubscriptionsPrivate
      [] StartsWith(message, QuotaPrefix) -> Ratelimited
      [] OTHER -> Forbidden

\* the match on resp.status() of get_subscriptions: Ok(TRUE) to go on decoding
SubscriptionsStatus(ans) ==
    CASE ans.status = 429 -> Err(Ratelimited)
      [] ans.status = 403 ->
            LET er == DecodeErrorResponse(ans.body)
            IN  IF er.ok THEN Err(SubscriptionsForbidden(er.v)) ELSE er
      [] ans.status = 404 -> Err(NotFound)
      [] ans.status = 401 -> Err(Unauthorized)
      [] ans.status \in {500, 503} -> Err(InternalServerError)
      [] ans.status = 200 -> Ok(TRUE)
      [] OTHER ->
            IF text(ans.body).ok
            THEN Err(UnknownStatusCode(ans.status))
            ELSE Err(ParseError)

\* resp.json::<ApiResponse>() of subscriptions.rs: SubscriptionSnippet.resource_id
\* is required, every other field is optional
DecodeSubscriptionsResponse(body) ==
    IF /\ body.kind = "json"
       /\ body.shape = "subscriptions"
       /\ \/ body.v.items = None
          \/ \A i \in 1..Len(Unwrap(body.v.items)) :
                LET it == Unwrap(body.v.items)[i]
                IN  IsSome(it.snippet) => IsSome(Unwrap(it.snippet).resource_id)
    THEN Ok(body.v)
    ELSE Err(ParseError)

\* the filter_map closure of both fetchers: None when a `?` gives up
ListRecord(item) ==
    IF item.snippet = None THEN None
    ELSE LET sn == Unwrap(item.snippet)
         IN  IF sn.resource_id = None \/ Unwrap(sn.resource_id) = None THEN None
             ELSE IF sn.title = None THEN None
             ELSE IF sn.published_at = None THEN None
             ELSE IF ~Unwrap(sn.published_at).rfc3339 THEN None
             ELSE Some([id |-> Unwrap(Unwrap(sn.resource_id)),
                        title |-> Unwrap(sn.title),
                        created_at |-> Unwrap(sn.published_at).secs])

RECURSIVE filter_map(_)
filter_map(items) ==
    IF items = <<>> THEN <<>>
    ELSE ListRecord(Head(items)) \o filter_map(Tail(items))

unwrap_or_default(items) == IF IsSome(items) THEN Unwrap(items) ELSE <<>>

\* get_subscriptions: Result<(Vec<Subscription>, Option<String>), YouTubeError>
get_subscriptions(ans) ==
    IF ~ans.net THEN Err(Other)
    ELSE IF ~SubscriptionsStatus(ans).ok THEN SubscriptionsStatus(ans)
    ELSE LET d == DecodeSubscriptionsResponse(ans.body)
         IN  IF ~d.ok THEN d
             ELSE Ok([items |-> filter_map(unwrap_or_default(d.v.items)),
                      page_token |-> d.v.next_page_token])

\* the 403 arm of get_playlist_items, on the decoded error message
PlaylistItemsForbidden(message) ==
    IF StartsWith(message, QuotaPrefix) THEN Ratelimited ELSE Forbidden

\* the match on resp.status() of get_playlist_items: Ok(TRUE) to go on decoding
PlaylistItemsStatus(ans) ==
    CASE ans.status = 429 -> Err(Ratelimited)
      [] ans.status = 403 ->
            LET er == DecodeErrorResponse(ans.body)
            IN  IF er.ok THEN Err(PlaylistItemsForbidden(er.v)) ELSE er
      [] ans.status = 404 -> Err(NotFound)
      [] ans.status = 401 -> Err(Unauthorized)
      [] ans.status \in {500, 503} -> Err(InternalServerError)
      [] ans.status = 200 -> Ok(TRUE)
      [] OTHER ->
            IF text(ans.body).ok
            THEN Err(UnknownStatusCode(ans.status))
            ELSE Err(ParseError)

\* resp.json::<ApiResponse>() of playlist_items.rs: every field is optional
DecodePlaylistItemsResponse(body) ==
    IF body.kind = "json" /\ body.shape = "playlistItems"
    THEN Ok(body.v)
    ELSE Err(ParseError)

\* get_playlist_items: Result<(Vec<Video>, Option<String>), YouTubeError>
get_playlist_items(ans) ==
    IF ~ans.net THEN Err(Other)
    ELSE IF ~PlaylistItemsStatus(ans).ok THEN PlaylistItemsStatus(ans)
    ELSE LET d == DecodePlaylistItemsResponse(ans.body)
         IN  IF ~d.ok THEN d
             ELSE Ok([items |-> filter_map(unwrap_or_default(d.v.items)),
                      page_token |-> d.v.next_page_token])

PageTokens == {None, Some("CAUQAA")}

GoodSnippet(id) == Snippet(Some(DateString(TRUE, 1700000000)), Some("title"), Some(Some(id)))

\* the items of either list in this model: complete ones, and ones that lack a field
ListItems ==
    {ListItem(Some(GoodSnippet("id1"))),
     ListItem(Some(GoodSnippet("id2"))),
     ListItem(None),
     ListItem(Some(Snippet(None, Some("title"), Some(Some("id3"))))),
     ListItem(Some(Snippet(Some(DateString(FALSE, 0)), Some("title"), Some(Some("id3"))))),
     ListItem(Some(Snippet(Some(DateString(TRUE, 1700000000)), None, Some(Some("id3"))))),
     ListItem(Some(Snippet(Some(DateString(TRUE, 1700000000)), Some("title"), Some(None)))),
     ListItem(Some(Snippet(Some(DateString(TRUE, 1700000000)), Some("title"), None)))}

ItemLists ==
    {None, Some(<<>>)}
    \cup {Some(<<i>>) : i \in ListItems}
    \cup {Some(<<i, ListItem(Some(GoodSnippet("id2")))>>) : i \in ListItems}

ListOkBodies(shape) ==
    {Unreadable, NotJson}
    \cup {ListJson(shape, t, l) : t \in PageTokens, l \in ItemLists}

SubscriptionsAnswers ==
    NonOkAnswers \cup {Answer(200, b) : b \in ListOkBodies("subscriptions")}

PlaylistItemsAnswers ==
    NonOkAnswers \cup {Answer(200, b) : b \in ListOkBodies("playlistItems")}

----------------------------------------------------------------------------
(* enrich_channel_data (src/src/youtubei/browse.rs) *)

\* ALL_COUNTRIES, cut down to three of its 249 codes
ALL_COUNTRIES == {"DE", "FR", "US"}

\* the BrowseResponse fields, each Option; runs are lists of their image names
BrowseJson(actions, header, microformat, metadata) ==
    Json("browse", [on_response_received_actions |-> actions,
                    header |-> header,
                    microformat |-> microformat,
                    metadata |-> metadata])
Header(attachment_runs) == [attachment_runs |-> attachment_runs]
AttachmentRun(sources) == [sources |-> sources]
MicroformatDataRenderer(noindex, available_countries) ==
    [noindex |-> noindex, available_countries |-> available_countries]
ChannelMetadataRenderer(owner_urls) == [owner_urls |-> owner_urls]

\* resp.json::<BrowseResponse>(): the four top-level fields are optional
DecodeBrowseResponse(body) ==
    IF body.kind = "json" /\ body.shape = "browse" THEN Ok(body.v) ELSE Err(ParseError)

\* how a call of enrich_channel_data ends: it returns, leaving the channel as
\* given here, or it panics
Returned(r, ch) == [panic |-> FALSE, r |-> r, channel |-> ch]
Panicked == [panic |-> TRUE]

\* str::strip_prefix
strip_prefix(s, prefix) ==
    IF StartsWith(s, prefix)
    THEN Some(SubSeq(s, Len(prefix) + 1, Len(s)))
    ELSE None

\* ConditionalRedirect without the comparison with the channel's own id
ConditionalRedirectToSelf(ch, actions) ==
    IF IsSome(actions) /\ Len(Unwrap(actions)) > 0
    THEN Some(Unwrap(actions)[1])
    ELSE None

\* the redirect target of the response, when it differs from the channel's id
ConditionalRedirect(ch, actions) ==
    IF /\ IsSome(actions)
       /\ Len(Unwrap(actions)) > 0
       /\ Unwrap(actions)[1] # ch.user_id
    THEN Some(Unwrap(actions)[1])
    ELSE None

\* sources[0] of the first attachment run, on an empty source list
BadgePanics(header) ==
    /\ IsSome(header)
    /\ IsSome(Unwrap(header).attachment_runs)
    /\ Len(Unwrap(Unwrap(header).attachment_runs)) > 0
    /\ Len(Unwrap(Unwrap(header).attachment_runs)[1].sources) = 0

\* the image name of the first source of the first attachment run
Badge(header) ==
    IF /\ IsSome(header.attachment_runs)
       /\ Len(Unwrap(header.attachment_runs)) > 0
    THEN Some(Unwrap(header.attachment_runs)[1].sources[1])
    ELSE None

\* VerificationOfBadge with the two known badges taken for each other
VerificationOfBadgeSwapped(badge) ==
    CASE badge = Some("AUDIO_BADGE") -> "Verified"
      [] badge = Some("CHECK_CIRCLE_FILLED") -> "OAC"
      [] OTHER -> "None"

\* VerificationStatus of a badge
VerificationOfBadge(badge) ==
    CASE badge = Some("AUDIO_BADGE") -> "OAC"
      [] badge = Some("CHECK_CIRCLE_FILLED") -> "Verified"
      [] OTHER -> "None"

WithVerification(ch, header) ==
    IF IsSome(header)
    THEN [ch EXCEPT !.verification = Some(VerificationOfBadge(Badge(Unwrap(header))))]
    ELSE ch

\* the seq of country codes as a set
Range(seq) == {seq[i] : i \in 1..Len(seq)}

\* BlockedCountries without the is_empty test
BlockedCountriesOrEmpty(available) == Some(ALL_COUNTRIES \ Range(available))

\* blocked countries; the Vec the code collects from a HashSet has no fixed
\* order and is kept as a set
BlockedCountries(available) ==
    LET blocked == ALL_COUNTRIES \ Range(available)
    IN  IF blocked = {} THEN None ELSE Some(blocked)

WithMicroformat(ch, microformat) ==
    IF IsSome(microformat)
    THEN LET m == Unwrap(microformat)
             c1 == [ch EXCEPT !.no_index = m.noindex]
         IN  IF IsSome(m.available_countries)
             THEN [c1 EXCEPT !.blocked_countries =
                                 BlockedCountries(Unwrap(m.available_countries))]
             ELSE c1
    ELSE ch

HandleUrlPrefix == <<"http://www.youtube.com/@">>

\* FirstHandle that lets the last owner URL with the handle prefix win
LastHandle(owner_urls) ==
    LET matching == {i \in 1..Len(owner_urls) :
                        IsSome(strip_prefix(owner_urls[i], HandleUrlPrefix))}
    IN  IF matching = {} THEN None
        ELSE strip_prefix(owner_urls[CHOOSE i \in matching : \A j \in matching : j <= i],
                          HandleUrlPrefix)

\* the handle of the first owner URL that has the handle prefix
RECURSIVE FirstHandle(_)
FirstHandle(owner_urls) ==
    IF owner_urls = <<>> THEN None
    ELSE IF IsSome(strip_prefix(Head(owner_urls), HandleUrlPrefix))
         THEN strip_prefix(Head(owner_urls), HandleUrlPrefix)
         ELSE FirstHandle(Tail(owner_urls))

WithHandle(ch, metadata) ==
    IF /\ IsSome(metadata)
       /\ IsSome(Unwrap(metadata).owner_urls)
       /\ IsSome(FirstHandle(Unwrap(Unwrap(metadata).owner_urls)))
    THEN [ch EXCEPT !.handle = FirstHandle(Unwrap(Unwrap(metadata).owner_urls))]
    ELSE ch

\* the 200 arm of enrich_channel_data, on the decoded response
EnrichFrom(ch, r) ==
    IF IsSome(ConditionalRedirect(ch, r.on_response_received_actions))
    THEN Returned(Ok(<<>>),
                  [ch EXCEPT !.conditional_redirect =
                                 ConditionalRedirect(ch, r.on_response_received_actions)])
    ELSE IF BadgePanics(r.header) THEN Panicked
    ELSE Returned(Ok(<<>>),
                  WithHandle(WithMicroformat(WithVerification(ch, r.header),
                                             r.microformat),
                             r.metadata))

\* enrich_channel_data that resets the enrichment fields before it looks at the
\* answer, so that a failed call leaves its marks on the channel
enrich_channel_data_resetting(ch, ans) ==
    LET reset == [ch EXCEPT !.verification = Some("None"), !.handle = None]
    IN  IF ~ans.net THEN Returned(Err(Other), reset)
        ELSE IF ans.status = 200
             THEN LET d == DecodeBrowseResponse(ans.body)
                  IN  IF d.ok THEN EnrichFrom(ch, d.v) ELSE Returned(d, reset)
             ELSE Returned(Err(UnknownStatusCode(ans.status)), reset)

\* enrich_channel_data(client, &mut channel)
enrich_channel_data(ch, ans) ==
    IF ~ans.net THEN Returned(Err(Other), ch)
    ELSE IF ans.status = 200
         THEN LET d == DecodeBrowseResponse(ans.body)
              IN  IF d.ok THEN EnrichFrom(ch, d.v) ELSE Returned(d, ch)
         ELSE Returned(Err(UnknownStatusCode(ans.status)), ch)

OwnerUrlChannel == <<"http://www.youtube.com/channel/", "U", "C">>
OwnerUrlHandle(h) == HandleUrlPrefix \o h

\* the decoded 200 bodies of the browse call in the request model: nothing at
\* all, a redirect, a header alone, a header with an empty source list, and
\* fully populated ones
BrowseOkBodies ==
    {Unreadable, NotJson,
     BrowseJson(None, None, None, None),
     BrowseJson(Some(<<>>), Some(Header(None)), None,
                Some(ChannelMetadataRenderer(Some(<<OwnerUrlChannel>>)))),
     BrowseJson(None, Some(Header(Some(<<AttachmentRun(<<>>)>>))), None, None)}
    \cup {BrowseJson(Some(<<b>>),
                     Some(Header(Some(<<AttachmentRun(<<"CHECK_CIRCLE_FILLED">>)>>))),
                     Some(MicroformatDataRenderer(Some(FALSE), Some(<<"DE", "FR">>))),
                     Some(ChannelMetadataRenderer(Some(
                         <<OwnerUrlChannel, OwnerUrlHandle(<<"h", "2">>)>>)))) :
            b \in BrowseIds}
    \cup {BrowseJson(None,
                     Some(Header(Some(<<AttachmentRun(<<badge>>)>>))),
                     Some(MicroformatDataRenderer(Some(TRUE), Some(<<"US", "FR", "DE">>))),
                     Some(ChannelMetadataRenderer(None))) :
            badge \in {"AUDIO_BADGE", "OTHER_BADGE"}}

\* enrich_channel_data reads no body of an answer that is not 200
BrowseAnswers ==
    {TransportFailure}
    \cup {Answer(s, NotJson) : s \in Statuses \ {200}}
    \cup {Answer(200, b) : b \in BrowseOkBodies}

----------------------------------------------------------------------------
(* The handlers (src/src/api/handlers.rs) *)

MAX_RESULTS == 50

\* the `id` strings of the requests in this model
Ids == {<<"a", "B">>}

LookupTypes == {"CustomUrl", "Vanity", "Username", "Handle", "ChannelId"}

\* the Json extractor's result: a ChannelLookupRequest or a JsonRejection
ChannelPayloads ==
    {Err(j) : j \in JsonRejections}
    \cup {Ok([type |-> t, id |-> i]) : t \in LookupTypes, i \in Ids}

\* the Json extractor's result: a PaginatedRequest or a JsonRejection
PaginatedPayloads ==
    {Err(j) : j \in JsonRejections}
    \cup {Ok([id |-> i, page_token |-> t]) : i \in Ids, t \in PageTokens}

\* the upstream calls, with the arguments the callee puts on the wire
ResolveCall(url) == [op |-> "resolve_url", url |-> url]
ChannelCall(t, v) == [op |-> "get_channel", lookup_type |-> [t |-> t, v |-> v]]
EnrichCall(ch) == [op |-> "enrich_channel_data", browse_id |-> ch.user_id]
SubscriptionsCall(channel_id, page_token, max_results) ==
    [op |-> "get_subscriptions", channel_id |-> channel_id,
     page_token |-> page_token, max_results |-> max_results]
PlaylistItemsCall(playlist_id, page_token, max_results) ==
    [op |-> "get_playlist_items", playlist_id |-> playlist_id,
     page_token |-> page_token, max_results |-> max_results]

PlusUrl(id) == <<"youtube.com/+">> \o id
BareUrl(id) == <<"youtube.com/">> \o to_uppercase(id)
UserUrl(id) == <<"youtube.com/user/">> \o id
HandleUrl(handle) == <<"youtube.com/@">> \o handle

\* Await that issues `call` while the calls issued before are still outstanding
AwaitJoined(label, call) ==
    /\ pc' = label
    /\ inflight' = Append(inflight, call)
    /\ UNCHANGED <<result, response>>

\* the handler suspends on `call` at the await point `label`
Await(label, call) ==
    /\ pc' = label
    /\ inflight' = <<call>>
    /\ UNCHANGED <<result, response>>

\* the awaited call is answered with `ans`; `out` is what the callee returns
\* (None when it does not return)
Completed(ans, out) ==
    calls' = Append(calls, [call |-> inflight[1], answer |-> ans, out |-> out])

\* the handler returns `r`; axum turns it into the response
Return(r) ==
    /\ pc' = "done"
    /\ inflight' = <<>>
    /\ result' = Some(r)
    /\ response' = Some(IF r.ok THEN OkResponse(r.v) ELSE into_response(r.e))

\* the handler's task panics: no value is returned and no response is written
Abort ==
    /\ pc' = "aborted"
    /\ inflight' = <<>>
    /\ UNCHANGED <<result, response>>

ChannelLookupResponse(ch, redirect_url) == [channel |-> ch, redirect_url |-> redirect_url]

\* RedirectUrlOf that surfaces a browse target too, as the URL of its channel
RedirectUrlOfAnyTarget(resolve_result) ==
    IF IsSome(resolve_result)
    THEN IF Unwrap(resolve_result).t = "UrlEndpoint"
         THEN Some(Unwrap(resolve_result).url)
         ELSE Some(<<"http://www.youtube.com/channel/", Unwrap(resolve_result).browse_id>>)
    ELSE None

\* Some(ResolveUrlResult::UrlEndpoint { url }) => Some(url), _ => None
RedirectUrlOf(resolve_result) ==
    IF IsSome(resolve_result) /\ Unwrap(resolve_result).t = "UrlEndpoint"
    THEN Some(Unwrap(resolve_result).url)
    ELSE None

\* whether r matches Ok(Some(ResolveUrlResult::BrowseEndpoint { .. }))
IsBrowse(r) == r.ok /\ IsSome(r.v) /\ Unwrap(r.v).t = "BrowseEndpoint"

\* channel_handler up to its first await
ChannelRequest ==
    /\ pc = "idle"
    /\ \E payload \in ChannelPayloads :
        /\ req' = [route |-> "/api/channel", payload |-> payload]
        /\ IF ~payload.ok
           THEN Return(Err(ApiInvalidRequest(payload.e)))
           ELSE CASE payload.v.type = "CustomUrl" ->
                       Await("CustomUrl_plus", ResolveCall(PlusUrl(payload.v.id)))
                  [] payload.v.type = "Vanity" ->
                       Await("Vanity_bare", ResolveCall(BareUrl(payload.v.id)))
                  [] payload.v.type = "Username" ->
                       Await("Username_channel", ChannelCall("Username", payload.v.id))
                  [] payload.v.type = "Handle" ->
                       Await("Handle_channel", ChannelCall("Handle", payload.v.id))
                  [] payload.v.type = "ChannelId" ->
                       Await("ChannelId_channel", ChannelCall("ChannelID", payload.v.id))
    /\ UNCHANGED <<calls, channel, main_channel_id>>

\* get_channel answered: `?` returns its error, else the channel is kept and
\* enrich_channel_data is awaited at `label`
ChannelFetched(label) ==
    \E ans \in ChannelsAnswers :
        LET r == get_channel(ans)
        IN  /\ Completed(ans, Some(r))
            /\ IF r.ok
               THEN /\ channel' = Some(r.v)
                    /\ Await(label, EnrichCall(r.v))
               ELSE /\ Return(Err(FromYouTubeError(r.e)))
                    /\ UNCHANGED channel
            /\ UNCHANGED <<req, main_channel_id>>

\* the second resolution of the Username, Handle and ChannelId branches is
\* awaited at `label` when the channel has a handle; else the handler returns
HandleRedirectCheck(ch, label) ==
    IF IsSome(ch.handle)
    THEN Await(label, ResolveCall(HandleUrl(Unwrap(ch.handle))))
    ELSE Return(Ok(ChannelLookupResponse(ch, None)))

\* enrich_channel_data answered in the Username, Handle and ChannelId
\* branches: an Err is printed and dropped
EnrichedThenHandle(label) ==
    \E ans \in BrowseAnswers :
        LET e == enrich_channel_data(Unwrap(channel), ans)
        IN  /\ IF e.panic
               THEN /\ Completed(ans, None)
                    /\ Abort
                    /\ UNCHANGED channel
               ELSE /\ Completed(ans, Some(e.r))
                    /\ channel' = Some(e.channel)
                    /\ HandleRedirectCheck(e.channel, label)
            /\ UNCHANGED <<req, main_channel_id>>

\* HandleResolved that ignores an error of the resolution and returns the
\* channel without redirect_url
HandleResolvedLeniently ==
    \E ans \in ResolveAnswers :
        LET r == resolve_url(ans)
        IN  /\ Completed(ans, Some(r))
            /\ Return(Ok(ChannelLookupResponse(Unwrap(channel),
                                               IF r.ok THEN RedirectUrlOf(r.v) ELSE None)))
            /\ UNCHANGED <<req, channel, main_channel_id>>

\* resolve_url of youtube.com/@handle answered
HandleResolved ==
    \E ans \in ResolveAnswers :
        LET r == resolve_url(ans)
        IN  /\ Completed(ans, Some(r))
            /\ IF r.ok
               THEN Return(Ok(ChannelLookupResponse(Unwrap(channel), RedirectUrlOf(r.v))))
               ELSE Return(Err(ApiYouTubeError(r.e)))
            /\ UNCHANGED <<req, channel, main_channel_id>>

(* LookupType::CustomUrl *)

\* resolve_url of youtube.com/+id answered
CustomUrlPlusResolved ==
    /\ pc = "CustomUrl_plus"
    /\ \E ans \in ResolveAnswers :
        LET r == resolve_url(ans)
        IN  /\ Completed(ans, Some(r))
            /\ IF r.ok /\ IsSome(r.v)
               THEN IF Unwrap(r.v).t = "BrowseEndpoint"
                    THEN Await("CustomUrl_channel",
                               ChannelCall("ChannelID", Unwrap(r.v).browse_id))
                    ELSE Return(Err(ApiInvalidRequest(
                                "Invalid custom URL - unexpected URL endpoint")))
               ELSE IF r.ok
                    THEN Return(Err(ApiNotFound("Custom URL not found")))
                    ELSE IF r.e = NotFound
                         THEN Return(Err(ApiNotFound("Custom URL not found")))
                         ELSE Return(Err(ApiYouTubeError(r.e)))
    /\ UNCHANGED <<req, channel, main_channel_id>>

CustomUrlChannelFetched ==
    /\ pc = "CustomUrl_channel"
    /\ ChannelFetched("CustomUrl_enrich")

\* enrich_channel_data answered: an Err is printed and dropped; then the bare
\* URL is resolved
CustomUrlEnriched ==
    /\ pc = "CustomUrl_enrich"
    /\ \E ans \in BrowseAnswers :
        LET e == enrich_channel_data(Unwrap(channel), ans)
        IN  IF e.panic
            THEN /\ Completed(ans, None)
                 /\ Abort
                 /\ UNCHANGED channel
            ELSE /\ Completed(ans, Some(e.r))
                 /\ channel' = Some(e.channel)
                 /\ Await("CustomUrl_bare", ResolveCall(BareUrl(req.payload.v.id)))
    /\ UNCHANGED <<req, main_channel_id>>

\* resolve_url of youtube.com/ID answered
CustomUrlBareResolved ==
    /\ pc = "CustomUrl_bare"
    /\ \E ans \in ResolveAnswers :
        LET r == resolve_url(ans)
        IN  /\ Completed(ans, Some(r))
            /\ IF r.ok
               THEN Return(Ok(ChannelLookupResponse(Unwrap(channel), RedirectUrlOf(r.v))))
               ELSE Return(Err(ApiYouTubeError(r.e)))
    /\ UNCHANGED <<req, channel, main_channel_id>>

(* LookupType::Vanity *)

\* resolve_url of youtube.com/ID answered
VanityBareResolved ==
    /\ pc = "Vanity_bare"
    /\ \E ans \in ResolveAnswers :
        LET r == resolve_url(ans)
        IN  /\ Completed(ans, Some(r))
            /\ IF ~r.ok
               THEN /\ Return(Err(ApiYouTubeError(r.e)))
                    /\ UNCHANGED main_channel_id
               ELSE IF IsBrowse(r)
                    THEN /\ main_channel_id' = Some(Unwrap(r.v).browse_id)
                         /\ Await("Vanity_plus", ResolveCall(PlusUrl(req.payload.v.id)))
                    ELSE /\ Return(Err(ApiNotFound("Invalid vanity URL")))
                         /\ UNCHANGED main_channel_id
    /\ UNCHANGED <<req, channel>>

\* VanityCollision with the comparison turned round
VanityCollisionInverted(r, main_id) ==
    IsBrowse(r) /\ Unwrap(r.v).browse_id # main_id

\* a probe's result is a browse endpoint with the browse id of the bare URL
VanityCollision(r, main_id) ==
    IsBrowse(r) /\ Unwrap(r.v).browse_id = main_id

\* resolve_url of youtube.com/+id answered
VanityPlusProbed ==
    /\ pc = "Vanity_plus"
    /\ \E ans \in ResolveAnswers :
        LET r == resolve_url(ans)
        IN  /\ Completed(ans, Some(r))
            /\ IF VanityCollision(r, Unwrap(main_channel_id))
               THEN Return(Err(ApiNotFound("Not a vanity URL")))
               ELSE Await("Vanity_user", ResolveCall(UserUrl(req.payload.v.id)))
    /\ UNCHANGED <<req, channel, main_channel_id>>

\* resolve_url of youtube.com/user/id answered
VanityUserProbed ==
    /\ pc = "Vanity_user"
    /\ \E ans \in ResolveAnswers :
        LET r == resolve_url(ans)
        IN  /\ Completed(ans, Some(r))
            /\ IF VanityCollision(r, Unwrap(main_channel_id))
               THEN Return(Err(ApiNotFound("Not a vanity URL")))
               ELSE Await("Vanity_channel",
                          ChannelCall("ChannelID", Unwrap(main_channel_id)))
    /\ UNCHANGED <<req, channel, main_channel_id>>

VanityChannelFetched ==
    /\ pc = "Vanity_channel"
    /\ ChannelFetched("Vanity_enrich")

\* enrich_channel_data answered: an Err is printed and dropped; (channel, None)
VanityEnriched ==
    /\ pc = "Vanity_enrich"
    /\ \E ans \in BrowseAnswers :
        LET e == enrich_channel_data(Unwrap(channel), ans)
        IN  IF e.panic
            THEN /\ Completed(ans, None)
                 /\ Abort
                 /\ UNCHANGED channel
            ELSE /\ Completed(ans, Some(e.r))
                 /\ channel' = Some(e.channel)
                 /\ Return(Ok(ChannelLookupResponse(e.channel, None)))
    /\ UNCHANGED <<req, main_channel_id>>

(* LookupType::Username *)

UsernameChannelFetched ==
    /\ pc = "Username_channel"
    /\ ChannelFetched("Username_enrich")

UsernameEnriched ==
    /\ pc = "Username_enrich"
    /\ EnrichedThenHandle("Username_handle")

UsernameHandleResolved ==
    /\ pc = "Username_handle"
    /\ HandleResolved

(* LookupType::Handle *)

HandleChannelFetched ==
    /\ pc = "Handle_channel"
    /\ ChannelFetched("Handle_enrich")

HandleEnriched ==
    /\ pc = "Handle_enrich"
    /\ EnrichedThenHandle("Handle_handle")

HandleHandleResolved ==
    /\ pc = "Handle_handle"
    /\ HandleResolved

(* LookupType::ChannelId *)

\* ChannelIdChannelFetched that runs check_channel_status on every error of
\* the fetch
ChannelIdChannelFetchedProbingAll ==
    /\ pc = "ChannelId_channel"
    /\ \E ans \in ChannelsAnswers :
        LET r == get_channel(ans)
        IN  /\ Completed(ans, Some(r))
            /\ IF r.ok
               THEN /\ channel' = Some(r.v)
                    /\ Await("ChannelId_enrich", EnrichCall(r.v))
               ELSE /\ UNCHANGED channel
                    /\ Await("ChannelId_status",
                             SubscriptionsCall(req.payload.v.id, None, 1))
    /\ UNCHANGED <<req, main_channel_id>>

\* get_channel answered: NotFound goes to check_channel_status, any other
\* error is returned
ChannelIdChannelFetched ==
    /\ pc = "ChannelId_channel"
    /\ \E ans \in ChannelsAnswers :
        LET r == get_channel(ans)
        IN  /\ Completed(ans, Some(r))
            /\ IF r.ok
               THEN /\ channel' = Some(r.v)
                    /\ Await("ChannelId_enrich", EnrichCall(r.v))
               ELSE /\ UNCHANGED channel
                    /\ IF r.e = NotFound
                       THEN Await("ChannelId_status",
                                  SubscriptionsCall(req.payload.v.id, None, 1))
                       ELSE Return(Err(ApiYouTubeError(r.e)))
    /\ UNCHANGED <<req, main_channel_id>>

\* check_channel_status that hands the probe's own error to the client
check_channel_status_passing_on(r) ==
    IF ~r.ok /\ r.e \in {AccountTerminated, AccountClosed}
    THEN Err(ApiYouTubeError(r.e))
    ELSE Err(ApiNotFound("Channel not found"))

\* the match of check_channel_status on what get_subscriptions returned
check_channel_status(r) ==
    IF ~r.ok /\ r.e = AccountTerminated
    THEN Err(ApiNotFound("This channel has been terminated"))
    ELSE IF ~r.ok /\ r.e = AccountClosed
         THEN Err(ApiNotFound("This channel has been deleted"))
         ELSE Err(ApiNotFound("Channel not found"))

\* get_subscriptions answered inside check_channel_status
ChannelIdStatusChecked ==
    /\ pc = "ChannelId_status"
    /\ \E ans \in SubscriptionsAnswers :
        LET r == get_subscriptions(ans)
        IN  /\ Completed(ans, Some(r))
            /\ Return(check_channel_status(r))
    /\ UNCHANGED <<req, channel, main_channel_id>>

ChannelIdEnriched ==
    /\ pc = "ChannelId_enrich"
    /\ EnrichedThenHandle("ChannelId_handle")

ChannelIdHandleResolved ==
    /\ pc = "ChannelId_handle"
    /\ HandleResolved

(* the list routes *)

\* playlist_items_handler up to its await
PlaylistItemsRequest ==
    /\ pc = "idle"
    /\ \E payload \in PaginatedPayloads :
        /\ req' = [route |-> "/api/playlist_items", payload |-> payload]
        /\ IF ~payload.ok
           THEN Return(Err(ApiInvalidRequest(payload.e)))
           ELSE Await("PlaylistItems_fetch",
                      PlaylistItemsCall(payload.v.id, payload.v.page_token, MAX_RESULTS))
    /\ UNCHANGED <<calls, channel, main_channel_id>>

\* get_playlist_items answered
PlaylistItemsFetched ==
    /\ pc = "PlaylistItems_fetch"
    /\ \E ans \in PlaylistItemsAnswers :
        LET r == get_playlist_items(ans)
        IN  /\ Completed(ans, Some(r))
            /\ IF r.ok THEN Return(Ok(r.v)) ELSE Return(Err(FromYouTubeError(r.e)))
    /\ UNCHANGED <<req, channel, main_channel_id>>

\* subscriptions_handler up to its await
SubscriptionsRequest ==
    /\ pc = "idle"
    /\ \E payload \in PaginatedPayloads :
        /\ req' = [route |-> "/api/subscriptions", payload |-> payload]
        /\ IF ~payload.ok
           THEN Return(Err(ApiInvalidRequest(payload.e)))
           ELSE Await("Subscriptions_fetch",
                      SubscriptionsCall(payload.v.id, payload.v.page_token, MAX_RESULTS))
    /\ UNCHANGED <<calls, channel, main_channel_id>>

\* get_subscriptions answered
SubscriptionsFetched ==
    /\ pc = "Subscriptions_fetch"
    /\ \E ans \in SubscriptionsAnswers :
        LET r == get_subscriptions(ans)
        IN  /\ Completed(ans, Some(r))
            /\ IF r.ok THEN Return(Ok(r.v)) ELSE Return(Err(FromYouTubeError(r.e)))
    /\ UNCHANGED <<req, channel, main_channel_id>>

----------------------------------------------------------------------------
(* The specification *)

NoRequest == [route |-> "", payload |-> Err("")]

\* the server after create_router: no request is being served
Init ==
    /\ pc = "idle"
    /\ req = NoRequest
    /\ inflight = <<>>
    /\ calls = <<>>
    /\ channel = None
    /\ main_channel_id = None
    /\ result = None
    /\ response = None

\* the response is written (or the connection of a panicked task is closed)
\* and everything of the request is dropped; the next request starts afresh
Respond ==
    /\ pc \in {"done", "aborted"}
    /\ pc' = "idle"
    /\ req' = NoRequest
    /\ inflight' = <<>>
    /\ calls' = <<>>
    /\ channel' = None
    /\ main_channel_id' = None
    /\ result' = None
    /\ response' = None

Next ==
    \/ ChannelRequest
    \/ CustomUrlPlusResolved
    \/ CustomUrlChannelFetched
    \/ CustomUrlEnriched
    \/ CustomUrlBareResolved
    \/ VanityBareResolved
    \/ VanityPlusProbed
    \/ VanityUserProbed
    \/ VanityChannelFetched
    \/ VanityEnriched
    \/ UsernameChannelFetched
    \/ UsernameEnriched
    \/ UsernameHandleResolved
    \/ HandleChannelFetched
    \/ HandleEnriched
    \/ HandleHandleResolved
    \/ ChannelIdChannelFetched
    \/ ChannelIdStatusChecked
    \/ ChannelIdEnriched
    \/ ChannelIdHandleResolved
    \/ PlaylistItemsRequest
    \/ PlaylistItemsFetched
    \/ SubscriptionsRequest
    \/ SubscriptionsFetched
    \/ Respond

Spec == Init /\ [][Next]_vars

----------------------------------------------------------------------------
(* enrich_channel_data on its own: every channel and every answer of the
   bounded sets below *)

\* the longest available-countries list
MaxCountries == 3

\* lists of at most n country codes; "XX" is a code outside ALL_COUNTRIES
CountryCodes == ALL_COUNTRIES \cup {"XX"}
CountryLists(n) == UNION {[1..k -> CountryCodes] : k \in 0..n}

\* the channels handed to enrich_channel_data: as get_channel builds them, and
\* with enrichment fields and handle already filled
GivenChannels ==
    {Channel(b, h) : b \in BrowseIds, h \in {None, Some(<<"h", "1">>)}}
    \cup {[Channel(b, Some(<<"h", "1">>)) EXCEPT !.verification = Some("Verified"),
                                                 !.no_index = Some(TRUE),
                                                 !.blocked_countries = Some({"FR"})] :
            b \in BrowseIds}

\* the parts of a BrowseResponse
GivenActions ==
    {None, Some(<<>>)}
    \cup {Some(<<b>>) : b \in BrowseIds}
    \cup {Some(<<b, c>>) : b \in BrowseIds, c \in BrowseIds}
GivenHeaders ==
    {None, Some(Header(None)), Some(Header(Some(<<AttachmentRun(<<"AUDIO_BADGE">>)>>)))}
GivenMicroformats ==
    {None}
    \cup {Some(MicroformatDataRenderer(n, None)) : n \in {None, Some(TRUE), Some(FALSE)}}
    \cup {Some(MicroformatDataRenderer(Some(FALSE), Some(a))) : a \in CountryLists(MaxCountries)}
GivenMetadata ==
    {None, Some(ChannelMetadataRenderer(Some(<<OwnerUrlChannel, OwnerUrlHandle(<<"h", "2">>)>>)))}

\* more owner-URL lists: none, an empty one, one without handle URL (the
\* https form does not have the prefix), one with two handle URLs
OwnerUrlLists ==
    {None, Some(<<>>),
     Some(<<OwnerUrlChannel, <<"https://www.youtube.com/@", "h", "3">>>>),
     Some(<<OwnerUrlChannel, OwnerUrlHandle(<<"h", "3">>), OwnerUrlHandle(<<"h", "2">>)>>)}

\* more headers: no attachment run, the other known badge, an unknown badge in
\* the first of two runs, two sources in one run, no source at all
BadgeHeaders ==
    {Header(Some(<<>>)),
     Header(Some(<<AttachmentRun(<<"CHECK_CIRCLE_FILLED">>)>>)),
     Header(Some(<<AttachmentRun(<<"OTHER_BADGE">>), AttachmentRun(<<"AUDIO_BADGE">>)>>)),
     Header(Some(<<AttachmentRun(<<"AUDIO_BADGE", "CHECK_CIRCLE_FILLED">>)>>)),
     Header(Some(<<AttachmentRun(<<>>)>>))}

GivenBrowseAnswers ==
    {TransportFailure, Answer(200, NotJson), Answer(200, Unreadable)}
    \cup {Answer(s, NotJson) : s \in Statuses \ {200}}
    \cup {Answer(200, BrowseJson(a, h, m, d)) :
            a \in GivenActions, h \in GivenHeaders, m \in GivenMicroformats,
            d \in GivenMetadata}
    \cup {Answer(200, BrowseJson(a, Some(h), None, d)) :
            a \in {None} \cup {Some(<<x>>) : x \in BrowseIds}, h \in BadgeHeaders,
            d \in GivenMetadata}
    \cup {Answer(200, BrowseJson(a, h, None, Some(ChannelMetadataRenderer(u)))) :
            a \in {None} \cup {Some(<<x>>) : x \in BrowseIds},
            h \in {None, Some(Header(None))}, u \in OwnerUrlLists}

\* the call with its `&mut channel` argument as it is at the call
EnrichArgs(ch) == [op |-> "enrich_channel_data", browse_id |-> ch.user_id, channel |-> ch]

InitEnrich ==
    /\ pc = "enrich"
    /\ req = NoRequest
    /\ \E ch \in GivenChannels :
        /\ inflight = <<EnrichArgs(ch)>>
        /\ channel = Some(ch)
    /\ calls = <<>>
    /\ main_channel_id = None
    /\ result = None
    /\ response = None

\* enrich_channel_data runs on the answer
EnrichAnswered ==
    /\ pc = "enrich"
    /\ \E ans \in GivenBrowseAnswers :
        LET e == enrich_channel_data(Unwrap(channel), ans)
        IN  IF e.panic
            THEN /\ Completed(ans, None)
                 /\ pc' = "aborted"
                 /\ UNCHANGED channel
            ELSE /\ Completed(ans, Some(e.r))
                 /\ pc' = "enriched"
                 /\ channel' = Some(e.channel)
    /\ inflight' = <<>>
    /\ UNCHANGED <<req, main_channel_id, result, response>>

NextEnrich == EnrichAnswered

SpecEnrich == InitEnrich /\ [][NextEnrich]_vars

----------------------------------------------------------------------------
(* The keyword tokenizer of get_channel (src/src/youtube/channels.rs) on its
   own: a string is the sequence of its characters *)

\* the longest keyword string drawn, besides the example
MaxKeywordLen == 5

\* str::trim, on strings whose only whitespace is the space
RECURSIVE trim_start(_)
trim_start(s) == IF s # <<>> /\ Head(s) = " " THEN trim_start(Tail(s)) ELSE s
RECURSIVE trim_end(_)
trim_end(s) ==
    IF s # <<>> /\ s[Len(s)] = " " THEN trim_end(SubSeq(s, 1, Len(s) - 1)) ELSE s
trim(s) == trim_end(trim_start(s))

\* the locals of the closure before the loop
KeywordsStart == [tags |-> <<>>, current_tag |-> <<>>, in_quotes |-> FALSE]

\* the loop body that pushes a backslash like any other character
KeywordsStepKeepingBackslash(st, c) ==
    CASE c = "\"" -> [st EXCEPT !.in_quotes = ~st.in_quotes]
      [] c = " " /\ ~st.in_quotes ->
            IF st.current_tag # <<>>
            THEN [st EXCEPT !.tags = Append(st.tags, trim(st.current_tag)),
                            !.current_tag = <<>>]
            ELSE st
      [] OTHER -> [st EXCEPT !.current_tag = Append(st.current_tag, c)]

\* the loop body: match c
KeywordsStep(st, c) ==
    CASE c = "\"" -> [st EXCEPT !.in_quotes = ~st.in_quotes]
      [] c = " " /\ ~st.in_quotes ->
            IF st.current_tag # <<>>
            THEN [st EXCEPT !.tags = Append(st.tags, trim(st.current_tag)),
                            !.current_tag = <<>>]
            ELSE st
      [] c = "\\" -> st
      [] OTHER -> [st EXCEPT !.current_tag = Append(st.current_tag, c)]

\* for c in k.chars()
RECURSIVE KeywordsLoop(_, _)
KeywordsLoop(k, st) ==
    IF k = <<>> THEN st ELSE KeywordsLoop(Tail(k), KeywordsStep(st, Head(k)))

\* the closure: the loop, the push of the last tag, the filter of empty tags
keywords(k) ==
    LET st == KeywordsLoop(k, KeywordsStart)
        tags == IF st.current_tag # <<>>
                THEN Append(st.tags, trim(st.current_tag))
                ELSE st.tags
    IN  SelectSeq(tags, LAMBDA t : t # <<>>)

\* the characters of the keyword strings, and the strings of at most n of them
KeywordChars == {"a", "b", " ", "\"", "\\"}
KeywordStrings(n) == UNION {[1..k -> KeywordChars] : k \in 0..n}

\* "tag one" two "tag three"
ExampleKeywords ==
    <<"\"", "t", "a", "g", " ", "o", "n", "e", "\"", " ", "t", "w", "o", " ",
      "\"", "t", "a", "g", " ", "t", "h", "r", "e", "e", "\"">>

\* brandingSettings.channel.keywords as the closure gets it
KeywordsArgs(k) == [op |-> "keywords", k |-> k]

InitKeywords ==
    /\ pc = "keywords"
    /\ req = NoRequest
    /\ \E k \in KeywordStrings(MaxKeywordLen) \cup {ExampleKeywords} :
        inflight = <<KeywordsArgs(k)>>
    /\ calls = <<>>
    /\ channel = None
    /\ main_channel_id = None
    /\ result = None
    /\ response = None

\* the closure runs on the string
KeywordsTokenized ==
    /\ pc = "keywords"
    /\ pc' = "tokenized"
    /\ calls' = Append(calls, [call |-> inflight[1],
                               out |-> Some(keywords(inflight[1].k))])
    /\ inflight' = <<>>
    /\ UNCHANGED <<req, channel, main_channel_id, result, response>>

NextKeywords == KeywordsTokenized

SpecKeywords == InitKeywords /\ [][NextKeywords]_vars

----------------------------------------------------------------------------
(* What the claims speak of *)

\* a channel lookup with a valid body is being served
IsChannelLookup == req.route = "/api/channel" /\ req.payload.ok
IsLookupOf(type) == IsChannelLookup /\ req.payload.v.type = type

\* the answered call `c` got status `s`
AnsweredStatus(c, s) == c.answer.net /\ c.answer.status = s

\* the answered call `c` got a 200 whose JSON has no or an empty item list
AnsweredNoItems(c) ==
    /\ AnsweredStatus(c, 200)
    /\ c.answer.body.kind = "json"
    /\ c.answer.body.v.items \in {None, Some(<<>>)}

\* the answered resolution `c` got a 200 naming the browse identifier `b`
AnsweredBrowse(c, b) ==
    /\ AnsweredStatus(c, 200)
    /\ c.answer.body.kind = "json"
    /\ IsSome(c.answer.body.v.endpoint)
    /\ Unwrap(c.answer.body.v.endpoint).browseEndpoint = Some(b)

\* the operations of the calls answered or in flight
OpsIssued ==
    {calls[i].call.op : i \in 1..Len(calls)} \cup {inflight[i].op : i \in 1..Len(inflight)}

\* the request ended with the 404 not_found error response
EndedNotFound ==
    /\ pc = "done"
    /\ IsSome(response)
    /\ Unwrap(response).status = 404
    /\ Unwrap(response).error = "not_found"
    /\ Unwrap(response).body = None

----------------------------------------------------------------------------
(* C1 *)

\* the upstream has no record: the first call is a URL resolution answered 404,
\* or a channel fetch is answered 404 or 200 without items
UpstreamRecordMissing ==
    \E i \in 1..Len(calls) :
        \/ /\ i = 1
           /\ calls[i].call.op = "resolve_url"
           /\ AnsweredStatus(calls[i], 404)
        \/ /\ calls[i].call.op = "get_channel"
           /\ AnsweredStatus(calls[i], 404) \/ AnsweredNoItems(calls[i])

\* C1: in every lookup kind, when the upstream record does not exist (the
\* primary URL resolution or the channel fetch answers 404, or the channel
\* fetch answers 200 with no or an empty item list), no channel is kept, the
\* only call that may follow is the ChannelId status probe, and the request
\* ends with the 404 not_found error and no channel in the response.
C1_MissingRecordIsNotFound ==
    (IsChannelLookup /\ UpstreamRecordMissing) =>
        /\ channel = None
        /\ pc \in {"done", "ChannelId_status"}
        /\ pc = "ChannelId_status" => IsLookupOf("ChannelId")
        /\ pc = "done" => EndedNotFound

\* a ChannelId lookup whose fetch answered 200 with an empty list and whose
\* probe returned subscriptions has ended
C1_Witness ==
    /\ IsLookupOf("ChannelId")
    /\ pc = "done"
    /\ Len(calls) = 2
    /\ AnsweredStatus(calls[1], 200)
    /\ AnsweredNoItems(calls[1])
    /\ Unwrap(calls[2].out).ok
    /\ Len(Unwrap(calls[2].out).v.items) > 0
    /\ EndedNotFound

----------------------------------------------------------------------------
(* C2 *)

\* the +id resolution of a CustomUrl lookup was a miss: not found, no endpoint
\* in the 200 answer, or a redirect target
CustomUrlMiss ==
    /\ IsLookupOf("CustomUrl")
    /\ Len(calls) >= 1
    /\ calls[1].call = ResolveCall(PlusUrl(req.payload.v.id))
    /\ \/ AnsweredStatus(calls[1], 404)
       \/ /\ AnsweredStatus(calls[1], 200)
          /\ calls[1].answer.body.kind = "json"
          /\ \/ calls[1].answer.body.v.endpoint = None
             \/ /\ IsSome(calls[1].answer.body.v.endpoint)
                /\ Unwrap(calls[1].answer.body.v.endpoint).browseEndpoint = None
                /\ IsSome(Unwrap(calls[1].answer.body.v.endpoint).urlEndpoint)

\* C2: a CustomUrl lookup whose +id resolution is a miss (not found, no
\* endpoint, or a redirect target) ends with the not-found error, and no other
\* upstream call is made.
C2_CustomUrlMissIsNotFound ==
    CustomUrlMiss => (EndedNotFound /\ Len(calls) = 1 /\ inflight = <<>>)

----------------------------------------------------------------------------
(* C3 *)

\* in a Vanity lookup the bare URL resolved to a browse identifier and the
\* +name or the /user/name probe resolved to the same one
VanityProbeCollides ==
    /\ IsLookupOf("Vanity")
    /\ Len(calls) >= 2
    /\ calls[1].call = ResolveCall(BareUrl(req.payload.v.id))
    /\ \E b \in BrowseIds :
        /\ AnsweredBrowse(calls[1], b)
        /\ \E i \in 2..Len(calls) :
            /\ calls[i].call \in {ResolveCall(PlusUrl(req.payload.v.id)),
                                  ResolveCall(UserUrl(req.payload.v.id))}
            /\ AnsweredBrowse(calls[i], b)

\* C3: in a Vanity lookup whose bare URL resolved to main_id, when the +name
\* probe or the /user/name probe resolves to main_id the request ends with the
\* 'Not a vanity URL' not-found error, and neither the channel fetch nor the
\* enrichment is ever issued.
C3_VanityCollisionFails ==
    VanityProbeCollides =>
        /\ EndedNotFound
        /\ result = Some(Err(ApiNotFound("Not a vanity URL")))
        /\ Unwrap(response).message = "Not a vanity URL"
        /\ OpsIssued = {"resolve_url"}

\* the /user/name probe collided after the +name probe had resolved elsewhere
C3_Witness ==
    /\ VanityProbeCollides
    /\ pc = "done"
    /\ Len(calls) = 3
    /\ \E b \in BrowseIds : AnsweredBrowse(calls[2], b) /\ ~AnsweredBrowse(calls[1], b)
    /\ calls[3].call = ResolveCall(UserUrl(req.payload.v.id))

----------------------------------------------------------------------------
(* C4 *)

\* the direct fetch of a ChannelId lookup was classified NotFound
ChannelIdFetchNotFound ==
    /\ IsLookupOf("ChannelId")
    /\ Len(calls) >= 1
    /\ calls[1].call.op = "get_channel"
    /\ calls[1].out = Some(Err(NotFound))

\* the subscriptions-list call of the status probe
StatusProbe == SubscriptionsCall(req.payload.v.id, None, 1)

\* C4: a ChannelId lookup whose direct fetch is classified NotFound issues
\* exactly one subscriptions-list call, with page size 1 and no page token,
\* and then ends with the 404 not-found error whatever the probe returns; the
\* message is 'This channel has been terminated' iff the probe is classified
\* AccountTerminated, 'This channel has been deleted' iff it is classified
\* AccountClosed, and 'Channel not found' otherwise.
C4_StatusProbeSharpensNotFound ==
    ChannelIdFetchNotFound =>
        /\ pc \in {"ChannelId_status", "done"}
        /\ pc = "ChannelId_status" => (Len(calls) = 1 /\ inflight = <<StatusProbe>>)
        /\ pc = "done" =>
            /\ Len(calls) = 2
            /\ calls[2].call = StatusProbe
            /\ EndedNotFound
            /\ Unwrap(response).message =
                 (IF calls[2].out = Some(Err(AccountTerminated))
                  THEN "This channel has been terminated"
                  ELSE IF calls[2].out = Some(Err(AccountClosed))
                       THEN "This channel has been deleted"
                       ELSE "Channel not found")

\* the probe was answered with the 'account is suspended' 403
C4_Witness ==
    /\ ChannelIdFetchNotFound
    /\ pc = "done"
    /\ calls[2].answer = Answer(403, ErrorJson(Some(MsgAccountSuspended)))
    /\ Unwrap(response).message = "This channel has been terminated"

----------------------------------------------------------------------------
(* C5 *)

\* the i-th answered call is an enrichment that returned an error
EnrichmentFailedAt(i) ==
    /\ calls[i].call.op = "enrich_channel_data"
    /\ IsSome(calls[i].out)
    /\ ~Unwrap(calls[i].out).ok

\* the channel as the fetch before the i-th call returned it
FetchedBefore(i) == Unwrap(calls[i - 1].out).v

\* what the handler does after an enrichment that changed nothing of channel
\* `ch`: the call it awaits next (None when it returns at once)
NextCallAfterEnrichment(ch) ==
    CASE req.payload.v.type = "CustomUrl" -> Some(ResolveCall(BareUrl(req.payload.v.id)))
      [] req.payload.v.type = "Vanity" -> None
      [] OTHER -> IF IsSome(ch.handle)
                  THEN Some(ResolveCall(HandleUrl(Unwrap(ch.handle))))
                  ELSE None

\* C5: in every lookup kind, an enrichment that returns an error (transport
\* failure, a status other than 200, an undecodable body) does not fail the
\* request: the channel stays as fetched, and the handler goes on exactly as
\* after an enrichment that changed nothing - it issues the same next call, or
\* returns the fetched channel, and only that later call's error can fail it.
C5_EnrichmentFailureIsSwallowed ==
    \A i \in 1..Len(calls) :
        (IsChannelLookup /\ EnrichmentFailedAt(i)) =>
            LET fetched == FetchedBefore(i)
                next == NextCallAfterEnrichment(fetched)
            IN  /\ calls[i - 1].call.op = "get_channel"
                /\ channel = Some(fetched)
                /\ pc # "aborted"
                /\ next = None =>
                      /\ pc = "done"
                      /\ Len(calls) = i
                      /\ Unwrap(response) = OkResponse(ChannelLookupResponse(fetched, None))
                /\ (IsSome(next) /\ Len(calls) = i) =>
                      (pc # "done" /\ inflight = next)
                /\ (IsSome(next) /\ Len(calls) > i) =>
                      /\ pc = "done"
                      /\ Len(calls) = i + 1
                      /\ calls[i + 1].call = Unwrap(next)
                      /\ LET r == Unwrap(calls[i + 1].out)
                         IN  IF r.ok
                             THEN Unwrap(response) =
                                    OkResponse(ChannelLookupResponse(fetched,
                                                                     RedirectUrlOf(r.v)))
                             ELSE Unwrap(response) = into_response(ApiYouTubeError(r.e))

\* a Username lookup answered with its fetched channel after the enrichment
\* call got a 503
C5_Witness ==
    /\ IsLookupOf("Username")
    /\ pc = "done"
    /\ Len(calls) = 3
    /\ EnrichmentFailedAt(2)
    /\ AnsweredStatus(calls[2], 503)
    /\ Unwrap(response).status = 200
    /\ Unwrap(response).body = Some(ChannelLookupResponse(FetchedBefore(2), None))

----------------------------------------------------------------------------
(* C6 *)

\* the classification the status table gives 429, 404, 401, 500 and 503
TabulatedKind(status) ==
    CASE status = 429 -> Ratelimited
      [] status = 404 -> NotFound
      [] status = 401 -> Unauthorized
      [] status \in {500, 503} -> InternalServerError

\* C6: every upstream-calling operation classifies an answer by status the
\* same way: 429 as Ratelimited, 404 as NotFound, 401 as Unauthorized, 500 and
\* 503 as InternalServerError.
C6_UniformStatusClassification ==
    \A i \in 1..Len(calls) :
        (calls[i].answer.net /\ calls[i].answer.status \in {429, 404, 401, 500, 503}) =>
            calls[i].out = Some(Err(TabulatedKind(calls[i].answer.status)))

----------------------------------------------------------------------------
(* C7 *)

\* the answered call `c` got a 403 whose error message is exactly `m`
AnsweredForbiddenWith(c, m) == c.answer = Answer(403, ErrorJson(Some(m)))

\* the three messages about the account and what subscriptions.rs makes of them
AccountMessages == {MsgAccountClosed, MsgAccountSuspended, MsgSubscriptionsPrivate}
RefinementOf(m) ==
    CASE m = MsgAccountClosed -> AccountClosed
      [] m = MsgAccountSuspended -> AccountTerminated
      [] m = MsgSubscriptionsPrivate -> SubscriptionsPrivate

\* C7: a 403 whose error message is exactly the 'account is closed', 'account
\* is suspended' or 'not allowed to access the requested subscriptions' text
\* is classified AccountClosed, AccountTerminated or SubscriptionsPrivate when
\* it answers a subscriptions-list call, and Forbidden when it answers a
\* channel fetch or a playlist-items fetch.
C7_AccountMessagesOnlyForSubscriptions ==
    \A i \in 1..Len(calls) : \A m \in AccountMessages :
        AnsweredForbiddenWith(calls[i], m) =>
            /\ calls[i].call.op = "get_subscriptions" =>
                  calls[i].out = Some(Err(RefinementOf(m)))
            /\ calls[i].call.op \in {"get_channel", "get_playlist_items"} =>
                  calls[i].out = Some(Err(Forbidden))

\* a subscriptions request was answered with the 'not allowed' 403 and ended
\* with the subscriptions_private response
C7_Witness ==
    /\ req.route = "/api/subscriptions"
    /\ pc = "done"
    /\ Len(calls) = 1
    /\ AnsweredForbiddenWith(calls[1], MsgSubscriptionsPrivate)
    /\ calls[1].out = Some(Err(SubscriptionsPrivate))
    /\ Unwrap(response).error = "subscriptions_private"

----------------------------------------------------------------------------
(* C8 *)

\* the one taxonomy value a 403 with body `body` answering `op` is to get
ForbiddenKind(op, body) ==
    IF body.kind = "json" /\ body.shape = "error" /\ IsSome(body.v.error_message)
    THEN LET m == Unwrap(body.v.error_message)
         IN  IF StartsWith(m, QuotaPrefix) THEN Ratelimited
             ELSE IF op = "get_subscriptions" /\ m \in AccountMessages
                  THEN RefinementOf(m)
                  ELSE Forbidden
    ELSE Forbidden

\* C8: every 403 from the channel, playlist-items or subscriptions endpoint is
\* classified as exactly one taxonomy value: Ratelimited when the message
\* starts with the quota prefix, one of the three subscriptions-only
\* refinements when applicable, and Forbidden for any other body.
C8_ForbiddenIsAlwaysClassified ==
    \A i \in 1..Len(calls) :
        (/\ calls[i].call.op \in {"get_channel", "get_playlist_items", "get_subscriptions"}
         /\ AnsweredStatus(calls[i], 403)) =>
            calls[i].out = Some(Err(ForbiddenKind(calls[i].call.op, calls[i].answer.body)))

----------------------------------------------------------------------------
(* C9 *)

\* the statuses some operation has an arm for
ClassifiedStatuses == {200, 401, 403, 404, 429, 500, 503}

\* C9: a success value is produced only when the status is exactly 200, and a
\* status outside the classified ones yields UnknownStatusCode carrying it.
C9_UnknownStatusNeverSucceeds ==
    \A i \in 1..Len(calls) :
        calls[i].answer.net =>
            /\ (IsSome(calls[i].out) /\ Unwrap(calls[i].out).ok) =>
                  calls[i].answer.status = 200
            /\ calls[i].answer.status \notin ClassifiedStatuses =>
                  calls[i].out = Some(Err(UnknownStatusCode(calls[i].answer.status)))

----------------------------------------------------------------------------
(* C10 *)

\* the table: failure kind -> HTTP status
TabulatedStatus(kind) ==
    CASE kind = "NotFound" -> 404
      [] kind = "Ratelimited" -> 429
      [] kind = "Unauthorized" -> 401
      [] kind \in {"Forbidden", "SubscriptionsPrivate"} -> 403
      [] kind \in {"AccountClosed", "AccountTerminated"} -> 410
      [] OTHER -> 500

\* C10: the mapping of a classified failure to a response is total and as
\* tabulated - NotFound 404, Ratelimited 429, Unauthorized 401, Forbidden and
\* SubscriptionsPrivate 403, AccountClosed and AccountTerminated 410, every
\* other kind 500 - its error code depends only on the failure kind, and a
\* request that ends with a classified failure answers with that response.
C10_ErrorResponseTable ==
    /\ \A e \in YouTubeError :
        /\ YouTubeErrorResponse(e).status = TabulatedStatus(e.kind)
        /\ YouTubeErrorResponse(e).error # ""
        /\ \A f \in YouTubeError :
              e.kind = f.kind => YouTubeErrorResponse(e).error = YouTubeErrorResponse(f).error
    /\ \A m \in ApiMessages :
        /\ into_response(ApiNotFound(m)).status = 404
        /\ into_response(ApiNotFound(m)).error = "not_found"
    /\ (pc = "done" /\ IsSome(result) /\ ~Unwrap(result).ok
          /\ Unwrap(result).e.variant = "YouTubeError") =>
            LET e == Unwrap(result).e.err
            IN  /\ Unwrap(response).status = TabulatedStatus(e.kind)
                /\ Unwrap(response).error = YouTubeErrorResponse(e).error
                /\ Unwrap(response).body = None

\* a subscriptions request whose upstream said the account is closed ended
\* with 410 account_closed
C10_Witness ==
    /\ pc = "done"
    /\ result = Some(Err(ApiYouTubeError(AccountClosed)))
    /\ Unwrap(response).status = 410
    /\ Unwrap(response).error = "account_closed"

----------------------------------------------------------------------------
(* C11 *)

\* the request ended with the classified failure `e`
EndedWithFailure(e) ==
    /\ pc = "done"
    /\ result = Some(Err(ApiYouTubeError(e)))

\* the error codes under which an unrecognised upstream status is returned
UnknownStatusCodes == {YouTubeErrorResponse(UnknownStatusCode(s)).error : s \in Statuses}

\* C11: an unrecognised upstream status is returned under an error code that
\* no other failure kind is returned under: a request that ends with a failure
\* of another kind (ParseError, a transport failure, ...) never carries it.
C11_UnknownStatusHasItsOwnCode ==
    \A e \in YouTubeError :
        (e.kind # "UnknownStatusCode" /\ EndedWithFailure(e)) =>
            Unwrap(response).error \notin UnknownStatusCodes

----------------------------------------------------------------------------
(* C12 *)

\* the i-th answered call failed in transport (no answer) or in decoding
FailedInTransportOrDecode(i) ==
    \/ ~calls[i].answer.net
    \/ calls[i].out = Some(Err(ParseError))

\* the request ended at its i-th call, with an error response
AbortedAt(i) ==
    /\ pc = "done"
    /\ Len(calls) = i
    /\ inflight = <<>>
    /\ Unwrap(response).status >= 400
    /\ Unwrap(response).body = None

\* C12: in every lookup kind, a transport or decode failure of an upstream
\* call other than the enrichment (URL resolutions, the Vanity probes among
\* them, channel fetches, the status probe) ends the request there, with an
\* error response.
C12_PrimaryFailuresAbort ==
    \A i \in 1..Len(calls) :
        (/\ IsChannelLookup
         /\ calls[i].call.op # "enrich_channel_data"
         /\ FailedInTransportOrDecode(i)) => AbortedAt(i)

----------------------------------------------------------------------------
(* C13 *)

\* no call of the request was issued twice
NoCallRepeated ==
    LET issued == calls \o [i \in 1..Len(inflight) |-> [call |-> inflight[i]]]
    IN  \A i, j \in 1..Len(issued) : issued[i].call = issued[j].call => i = j

\* C13: no upstream call is retried, and a request one of whose calls was
\* classified Ratelimited or InternalServerError ends there, its response
\* being the one of that classification (429 rate_limited, 500
\* internal_server_error).
C13_RatelimitedIsReturnedAsIs ==
    /\ NoCallRepeated
    /\ \A i \in 1..Len(calls) : \A e \in {Ratelimited, InternalServerError} :
        calls[i].out = Some(Err(e)) =>
            /\ pc = "done"
            /\ Len(calls) = i
            /\ Unwrap(response).status = (IF e = Ratelimited THEN 429 ELSE 500)
            /\ Unwrap(response).error =
                 (IF e = Ratelimited THEN "rate_limited" ELSE "internal_server_error")

----------------------------------------------------------------------------
(* C14 *)

\* the body of the request was rejected by the Json extractor
BodyRejected == req.route # "" /\ ~req.payload.ok

\* C14: on the channel, playlist-items and subscriptions routes, a request
\* whose body fails validation (malformed JSON, a missing field, an unknown
\* lookup type) ends with the invalid-request error (HTTP 400,
\* invalid_request, the rejection as message), and no upstream call is issued
\* for it.
C14_ValidationPrecedesUpstream ==
    BodyRejected =>
        /\ req.route \in {"/api/channel", "/api/playlist_items", "/api/subscriptions"}
        /\ pc = "done"
        /\ calls = <<>>
        /\ inflight = <<>>
        /\ result = Some(Err(ApiInvalidRequest(req.payload.e)))
        /\ Unwrap(response) = HttpResponse(400, "invalid_request", req.payload.e)

\* a playlist-items request whose JSON lacks a field was rejected
C14_Witness ==
    /\ req.route = "/api/playlist_items"
    /\ req.payload = Err("JsonDataError")
    /\ pc = "done"
    /\ Unwrap(response).status = 400

----------------------------------------------------------------------------
(* C15 *)

\* the enrichment-only fields of a channel
EnrichmentOnlyFields(ch) == {ch.no_index, ch.verification, ch.blocked_countries}
AllUnset(ch) == EnrichmentOnlyFields(ch) = {None}
AllSet(ch) == None \notin EnrichmentOnlyFields(ch)

\* the enrichment of the request has not been answered, or it returned an
\* error, or it recorded a redirect
NotEnriched ==
    \/ \A i \in 1..Len(calls) : calls[i].call.op # "enrich_channel_data"
    \/ \E i \in 1..Len(calls) : EnrichmentFailedAt(i)
    \/ IsSome(channel) /\ IsSome(Unwrap(channel).conditional_redirect)

\* C15: in every Channel a lookup produces, the enrichment-only fields
\* (no_index, verification, blocked_countries) are all unset or all set; they
\* are all unset when the enrichment did not run, failed, or found a redirect.
C15_EnrichmentFieldsTogether ==
    IsSome(channel) =>
        /\ AllUnset(Unwrap(channel)) \/ AllSet(Unwrap(channel))
        /\ NotEnriched => AllUnset(Unwrap(channel))

\* the enrichment answered as the i-th call succeeded without recording a
\* redirect
EnrichedAt(i) ==
    /\ calls[i].call.op = "enrich_channel_data"
    /\ calls[i].out = Some(Ok(<<>>))
    /\ Unwrap(channel).conditional_redirect = None

\* C15 (as the code has it): in every Channel a lookup produces, the
\* enrichment-only fields are all unset as the channel fetch returns it and
\* stay so when the enrichment did not run, failed, or found a redirect; after
\* an enrichment that succeeded without a redirect each field is set from its
\* own part of the response and nothing else writes it: verification iff the
\* response has a header, no_index as the microformat's flag has it, and
\* blocked_countries iff the microformat lists available countries that leave
\* some country out.
C15_FieldsUnsetUnlessEnriched ==
    /\ \A i \in 1..Len(calls) :
        (calls[i].call.op = "get_channel" /\ IsSome(calls[i].out)
           /\ Unwrap(calls[i].out).ok) => AllUnset(Unwrap(calls[i].out).v)
    /\ IsSome(channel) =>
        /\ NotEnriched => AllUnset(Unwrap(channel))
        /\ \A i \in 1..Len(calls) :
            EnrichedAt(i) =>
                LET r == calls[i].answer.body.v
                IN  /\ IsSome(Unwrap(channel).verification) <=> IsSome(r.header)
                    /\ Unwrap(channel).no_index =
                         (IF IsSome(r.microformat)
                          THEN Unwrap(r.microformat).noindex ELSE None)
                    /\ IsSome(Unwrap(channel).blocked_countries) <=>
                         /\ IsSome(r.microformat)
                         /\ IsSome(Unwrap(r.microformat).available_countries)
                         /\ ALL_COUNTRIES \ Range(Unwrap(Unwrap(r.microformat).available_countries)) # {}

\* a lookup answered with a channel whose enrichment found every country
\* available: verification and no_index are set, blocked_countries is not
C15_Witness ==
    /\ pc = "done"
    /\ IsSome(channel)
    /\ ~NotEnriched
    /\ IsSome(Unwrap(channel).verification)
    /\ IsSome(Unwrap(channel).no_index)
    /\ Unwrap(channel).blocked_countries = None
    /\ Unwrap(response).status = 200

----------------------------------------------------------------------------
(* C16 (under SpecEnrich) *)

\* the channel the call was given, the decoded 200 body it read (if it read
\* one) and the first redirect target in it
GivenChannel == calls[1].call.channel
BodiesRead ==
    IF /\ pc \in {"enriched", "aborted"}
       /\ AnsweredStatus(calls[1], 200)
       /\ calls[1].answer.body.kind = "json"
    THEN {calls[1].answer.body.v}
    ELSE {}
HasRedirectTarget(r) ==
    /\ IsSome(r.on_response_received_actions)
    /\ Len(Unwrap(r.on_response_received_actions)) > 0
RedirectTarget(r) == Unwrap(r.on_response_received_actions)[1]

\* the body `r` without its navigation actions
WithoutActions(r) == [r EXCEPT !.on_response_received_actions = None]

\* C16: when the response carries a navigation redirect whose target differs
\* from the channel's id, enrich_channel_data sets conditional_redirect to the
\* target, returns Ok and leaves verification, no_index, blocked_countries and
\* handle (and every other field) as they were; when the target is the
\* channel's own id it records no redirect and ends as it does on the same
\* response without the redirect.
C16_RedirectShortCircuit ==
    pc \in {"enriched", "aborted"} =>
        \A r \in BodiesRead :
            HasRedirectTarget(r) =>
                IF RedirectTarget(r) # GivenChannel.user_id
                THEN /\ pc = "enriched"
                     /\ calls[1].out = Some(Ok(<<>>))
                     /\ Unwrap(channel) =
                          [GivenChannel EXCEPT !.conditional_redirect = Some(RedirectTarget(r))]
                ELSE LET plain == enrich_channel_data(GivenChannel,
                                                      Answer(200, Json("browse", WithoutActions(r))))
                     IN  /\ Unwrap(channel).conditional_redirect = GivenChannel.conditional_redirect
                         /\ plain.panic <=> pc = "aborted"
                         /\ ~plain.panic =>
                              (Unwrap(channel) = plain.channel /\ calls[1].out = Some(plain.r))

\* a channel with verification, no_index, blocked_countries and handle given,
\* whose answer names another channel and carries a badge, a microformat and
\* a handle: only conditional_redirect has changed
C16_Witness ==
    /\ pc = "enriched"
    /\ GivenChannel.verification = Some("Verified")
    /\ \E r \in BodiesRead :
        /\ HasRedirectTarget(r)
        /\ RedirectTarget(r) # GivenChannel.user_id
        /\ IsSome(r.header) /\ IsSome(r.microformat) /\ IsSome(r.metadata)
    /\ Unwrap(channel).conditional_redirect # None
    /\ Unwrap(channel).verification = Some("Verified")
    /\ Unwrap(channel).blocked_countries = Some({"FR"})
    /\ Unwrap(channel).handle = Some(<<"h", "1">>)

----------------------------------------------------------------------------
(* C17 (under SpecEnrich) *)

\* the call read the available-countries list `A` on the way that populates
\* the fields (it returned Ok and recorded no redirect)
ReceivedAvailable(A) ==
    /\ pc = "enriched"
    /\ calls[1].out = Some(Ok(<<>>))
    /\ Unwrap(channel).conditional_redirect = None
    /\ \E r \in BodiesRead :
        /\ IsSome(r.microformat)
        /\ Unwrap(r.microformat).available_countries = Some(A)

\* C17: when the enrichment receives an available-countries list A,
\* blocked_countries is ALL_COUNTRIES minus A: unset (None) when nothing is
\* left and never an empty collection; the full set gives None, the full set
\* without "US" gives exactly {"US"}; every stored code is in ALL_COUNTRIES.
C17_BlockedCountriesIsDifference ==
    \A A \in CountryLists(MaxCountries) :
        ReceivedAvailable(A) =>
            LET stored == Unwrap(channel).blocked_countries
            IN  /\ stored = None <=> ALL_COUNTRIES \subseteq Range(A)
                /\ stored # Some({})
                /\ IsSome(stored) =>
                      /\ Unwrap(stored) \subseteq ALL_COUNTRIES
                      /\ Unwrap(stored) \cap Range(A) = {}
                      /\ ALL_COUNTRIES \subseteq (Unwrap(stored) \cup Range(A))
                /\ Range(A) = ALL_COUNTRIES \ {"US"} => stored = Some({"US"})

\* a channel with a blocked-country list given, every country available:
\* the list is unset afterwards
C17_Witness ==
    /\ \E A \in CountryLists(MaxCountries) :
        ReceivedAvailable(A) /\ Range(A) = ALL_COUNTRIES
    /\ GivenChannel.blocked_countries = Some({"FR"})
    /\ Unwrap(channel).blocked_countries = None

----------------------------------------------------------------------------
(* C18 (under SpecKeywords) *)

\* the reference: scan the string; a double quote toggles the flag and is not
\* emitted, a space outside quotes ends the token, a backslash is dropped,
\* every other character is appended
RECURSIVE ReferenceScan(_, _, _, _)
ReferenceScan(k, tokens, token, inside) ==
    IF k = <<>> THEN Append(tokens, token)
    ELSE LET c == Head(k)
         IN  IF c = "\"" THEN ReferenceScan(Tail(k), tokens, token, ~inside)
             ELSE IF c = " " /\ ~inside
                  THEN ReferenceScan(Tail(k), Append(tokens, token), <<>>, inside)
             ELSE IF c = "\\" THEN ReferenceScan(Tail(k), tokens, token, inside)
             ELSE ReferenceScan(Tail(k), tokens, Append(token, c), inside)

\* a token without the spaces at its ends
Trimmed(t) ==
    IF \A i \in 1..Len(t) : t[i] = " " THEN <<>>
    ELSE LET first == CHOOSE i \in 1..Len(t) : t[i] # " " /\ \A j \in 1..(i - 1) : t[j] = " "
             last == CHOOSE i \in 1..Len(t) : t[i] # " " /\ \A j \in (i + 1)..Len(t) : t[j] = " "
         IN  SubSeq(t, first, last)

\* the tokens of the reference: trimmed, the empty ones discarded
ReferenceTokens(k) ==
    LET scanned == ReferenceScan(k, <<>>, <<>>, FALSE)
        trimmed == [i \in 1..Len(scanned) |-> Trimmed(scanned[i])]
    IN  SelectSeq(trimmed, LAMBDA t : t # <<>>)

\* C18: for every string over letters, space, double quote and backslash the
\* keyword tokenizer returns the token list of the reference; no token is
\* empty or holds a double quote or a backslash; and the string
\* "tag one" two "tag three" gives <<tag one, two, tag three>>.
C18_TokenizerIsReference ==
    pc = "tokenized" =>
        LET k == calls[1].call.k
            tokens == Unwrap(calls[1].out)
        IN  /\ tokens = ReferenceTokens(k)
            /\ \A i \in 1..Len(tokens) :
                /\ tokens[i] # <<>>
                /\ \A j \in 1..Len(tokens[i]) : tokens[i][j] \notin {"\"", "\\"}
            /\ k = ExampleKeywords =>
                 tokens = << <<"t", "a", "g", " ", "o", "n", "e">>,
                             <<"t", "w", "o">>,
                             <<"t", "a", "g", " ", "t", "h", "r", "e", "e">> >>

\* an unterminated quote after a lone backslash: a\ "b  gives a and b
C18_Witness ==
    /\ pc = "tokenized"
    /\ calls[1].call.k = <<"a", "\\", " ", "\"", "b">>
    /\ Unwrap(calls[1].out) = << <<"a">>, <<"b">> >>

----------------------------------------------------------------------------
(* C19 *)

\* the upstream record has its id, its title and a creation timestamp that
\* parses
IsCompleteRecord(item) ==
    /\ IsSome(item.snippet)
    /\ IsSome(Unwrap(item.snippet).resource_id)
    /\ IsSome(Unwrap(Unwrap(item.snippet).resource_id))
    /\ IsSome(Unwrap(item.snippet).title)
    /\ IsSome(Unwrap(item.snippet).published_at)
    /\ Unwrap(Unwrap(item.snippet).published_at).rfc3339

\* the call `c` of a list fetcher was answered 200 with a list body
AnsweredList(c) ==
    /\ c.call.op \in {"get_subscriptions", "get_playlist_items"}
    /\ AnsweredStatus(c, 200)
    /\ c.answer.body.kind = "json"

\* what the claim has the fetcher return on the list body `v`
ExpectedList(v) ==
    LET complete == SelectSeq(unwrap_or_default(v.items), IsCompleteRecord)
    IN  Ok([items |-> [i \in 1..Len(complete) |->
                         [id |-> Unwrap(Unwrap(Unwrap(complete[i].snippet).resource_id)),
                          title |-> Unwrap(Unwrap(complete[i].snippet).title),
                          created_at |-> Unwrap(Unwrap(complete[i].snippet).published_at).secs]],
            page_token |-> v.next_page_token])

\* C19: both list fetchers, on a 200 answer, drop every upstream record that
\* lacks its id, title or creation timestamp at whatever level, return the
\* others in upstream order with the upstream next-page token, and succeed.
C19_IncompleteRecordsAreDropped ==
    \A i \in 1..Len(calls) :
        AnsweredList(calls[i]) => calls[i].out = Some(ExpectedList(calls[i].answer.body.v))

----------------------------------------------------------------------------
(* C20 *)

\* the resolution `c` was answered 200 with a JSON body that has no endpoint
AnsweredNoEndpoint(c) ==
    /\ c.call.op = "resolve_url"
    /\ AnsweredStatus(c, 200)
    /\ c.answer.body.kind = "json"
    /\ c.answer.body.v.endpoint = None

\* C20: resolve_url returns Ok(None), not an error, on a 200 answer without
\* an endpoint, and Ok(Some(BrowseEndpoint)) or Ok(Some(UrlEndpoint)) on every
\* other 200 answer it decodes.
C20_NoEndpointIsNone ==
    \A i \in 1..Len(calls) :
        /\ AnsweredNoEndpoint(calls[i]) => calls[i].out = Some(Ok(None))
        /\ (calls[i].call.op = "resolve_url" /\ IsSome(calls[i].out)
              /\ Unwrap(calls[i].out).ok /\ ~AnsweredNoEndpoint(calls[i])) =>
                /\ AnsweredStatus(calls[i], 200)
                /\ IsSome(Unwrap(calls[i].out).v)
                /\ Unwrap(Unwrap(calls[i].out).v).t \in {"BrowseEndpoint", "UrlEndpoint"}

----------------------------------------------------------------------------
(* C21 *)

\* the answered resolution `c` got a 200 naming the redirect target `u` and no
\* browse identifier
AnsweredRedirect(c, u) ==
    /\ AnsweredStatus(c, 200)
    /\ c.answer.body.kind = "json"
    /\ IsSome(c.answer.body.v.endpoint)
    /\ Unwrap(c.answer.body.v.endpoint).browseEndpoint = None
    /\ Unwrap(c.answer.body.v.endpoint).urlEndpoint = Some(u)

\* the redirect target the answered resolution `c` yielded, if it yielded one
RedirectYielded(c) ==
    IF \E u \in RedirectUrls : AnsweredRedirect(c, u)
    THEN Some(CHOOSE u \in RedirectUrls : AnsweredRedirect(c, u))
    ELSE None

\* in a CustomUrl lookup the +name resolution and the channel fetch succeeded,
\* the enrichment returned, and the resolution of the uppercased bare URL has
\* been answered
CustomUrlBareAnswered ==
    /\ IsLookupOf("CustomUrl")
    /\ Len(calls) = 4
    /\ calls[4].call = ResolveCall(BareUrl(req.payload.v.id))

\* C21: in a CustomUrl lookup whose +name resolution and channel fetch
\* succeeded, the request succeeds with the channel whatever the resolution of
\* the uppercased bare URL yields: redirect_url is the resolved URL when it
\* yields a redirect target, and null on every other outcome (browse target,
\* no endpoint, not-found, any other error).
C21_BareResolutionNeverFails ==
    CustomUrlBareAnswered =>
        /\ pc = "done"
        /\ Unwrap(response) =
             OkResponse(ChannelLookupResponse(Unwrap(channel), RedirectYielded(calls[4])))

----------------------------------------------------------------------------
(* C22 *)

\* the first upstream call of the request, answered or still in flight
FirstCallIssued ==
    IF Len(calls) > 0 THEN <<calls[1].call>> ELSE inflight

\* in a Vanity lookup the first call has been answered with something other
\* than a browse identifier
VanityBareNotBrowse ==
    /\ IsLookupOf("Vanity")
    /\ Len(calls) >= 1
    /\ \A b \in BrowseIds : ~AnsweredBrowse(calls[1], b)

\* C22: in a Vanity lookup the first upstream call is the resolution of the
\* uppercased bare URL; when its outcome is anything other than a browse
\* identifier the request ends with the not-found error and no other upstream
\* call (+name probe, /user/ probe, channel fetch, enrichment) is issued.
C22_VanityBareMustBeBrowse ==
    /\ IsLookupOf("Vanity") =>
          FirstCallIssued = <<ResolveCall(BareUrl(req.payload.v.id))>>
    /\ VanityBareNotBrowse =>
          /\ calls[1].call = ResolveCall(BareUrl(req.payload.v.id))
          /\ EndedNotFound
          /\ Len(calls) = 1
          /\ inflight = <<>>

----------------------------------------------------------------------------
(* C23 *)

\* a Username, Handle or ChannelId lookup is being served
IsDirectLookup ==
    IsChannelLookup /\ req.payload.v.type \in {"Username", "Handle", "ChannelId"}

\* the request ended with the 200 response
EndedOk ==
    /\ pc = "done"
    /\ IsSome(response)
    /\ Unwrap(response).status = 200

\* the handle the answered enrichment `c` of channel `ch` supplied: the first
\* @-handle of the owner URLs of a response that redirects nowhere else
HandleSupplied(c, ch) ==
    IF /\ c.out = Some(Ok(<<>>))
       /\ HasRedirectTarget(c.answer.body.v) => RedirectTarget(c.answer.body.v) = ch.user_id
       /\ IsSome(c.answer.body.v.metadata)
       /\ IsSome(Unwrap(c.answer.body.v.metadata).owner_urls)
    THEN FirstHandle(Unwrap(Unwrap(c.answer.body.v.metadata).owner_urls))
    ELSE None

\* the handle the channel carries after the enrichment calls[2] of the channel
\* fetched by calls[1]
HandleAfterEnrichment ==
    LET fetched == Unwrap(calls[1].out).v
    IN  IF IsSome(HandleSupplied(calls[2], fetched))
        THEN HandleSupplied(calls[2], fetched)
        ELSE fetched.handle

\* the answered resolution `c` got a 200 naming a browse target, or a 200
\* without endpoint
AnsweredBrowseOrNoEndpoint(c) ==
    /\ AnsweredStatus(c, 200)
    /\ c.answer.body.kind = "json"
    /\ \/ c.answer.body.v.endpoint = None
       \/ \E b \in BrowseIds : AnsweredBrowse(c, b)

\* in a direct lookup the re-resolution of youtube.com/@<handle> was answered
HandleReResolved ==
    /\ IsDirectLookup
    /\ Len(calls) = 3
    /\ calls[3].call.op = "resolve_url"

\* C23: in a successful Username, Handle or ChannelId lookup the channel
\* carries the handle the enrichment supplied, else the fetched one; with a
\* handle the re-resolution of youtube.com/@<handle> is the third call and
\* redirect_url is its redirect target, and null when it yields none (a
\* browse target, no endpoint); without a handle no re-resolution is issued
\* and redirect_url is null. A browse target never fails the request.
C23_HandleRedirectCheck ==
    /\ (IsDirectLookup /\ EndedOk) =>
          LET answered == Unwrap(Unwrap(response).body)
          IN  /\ Len(calls) >= 2
              /\ answered.channel.handle = HandleAfterEnrichment
              /\ IF IsSome(HandleAfterEnrichment)
                 THEN /\ Len(calls) = 3
                      /\ calls[3].call = ResolveCall(HandleUrl(Unwrap(HandleAfterEnrichment)))
                      /\ answered.redirect_url = RedirectYielded(calls[3])
                      /\ AnsweredBrowseOrNoEndpoint(calls[3]) => answered.redirect_url = None
                 ELSE /\ Len(calls) = 2
                      /\ "resolve_url" \notin OpsIssued
                      /\ answered.redirect_url = None
    /\ (HandleReResolved /\ \E b \in BrowseIds : AnsweredBrowse(calls[3], b)) =>
          /\ EndedOk
          /\ Unwrap(response) = OkResponse(ChannelLookupResponse(Unwrap(channel), None))

\* the enrichment replaced the fetched handle, and the re-resolution of the
\* new handle yielded a redirect target
C23_Witness ==
    /\ IsDirectLookup
    /\ EndedOk
    /\ IsSome(Unwrap(calls[1].out).v.handle)
    /\ HandleAfterEnrichment # Unwrap(calls[1].out).v.handle
    /\ IsSome(RedirectYielded(calls[3]))
    /\ Unwrap(Unwrap(response).body).redirect_url = RedirectYielded(calls[3])

----------------------------------------------------------------------------
(* C24 *)

\* the upstream calls the request has issued so far, in order: the answered
\* ones and the outstanding ones
CallsIssued == [i \in 1..Len(calls) |-> calls[i].call] \o inflight

\* how many of them are calls of `op`
NumIssued(op) == Cardinality({i \in 1..Len(CallsIssued) : CallsIssued[i].op = op})

\* at most one call is outstanding; while one is, all earlier calls have been
\* answered and none of them has decided the outcome
OneCallAtATime ==
    /\ Len(inflight) <= 1
    /\ inflight # <<>> =>
          /\ pc \notin {"idle", "done", "aborted"}
          /\ result = None
          /\ response = None
          /\ \A i \in 1..Len(calls) : IsSome(calls[i].out)

\* C24 as stated: within one request at most one upstream call is outstanding
\* at any time and each call is issued only after the previous one completed
\* without deciding the outcome; a Vanity lookup issues at most three upstream
\* calls.
C24_SequentialAtMostThree ==
    /\ OneCallAtATime
    /\ IsLookupOf("Vanity") => Len(CallsIssued) <= 3

\* C24 amended: within one request at most one upstream call is outstanding at
\* any time and each call is issued only after the previous one completed
\* without deciding the outcome; a Vanity lookup issues at most three URL
\* resolutions (bare, +name, /user/name), followed by at most one channel fetch
\* and one enrichment: at most five upstream calls.
C24_SequentialThreeResolutions ==
    /\ OneCallAtATime
    /\ IsLookupOf("Vanity") =>
          /\ NumIssued("resolve_url") <= 3
          /\ NumIssued("get_channel") <= 1
          /\ NumIssued("enrich_channel_data") <= 1
          /\ Len(CallsIssued) <= 5
          /\ \A i \in 1..Len(CallsIssued) :
                CallsIssued[i].op = "resolve_url" <=> i <= 3

\* an accepted vanity URL: three resolutions, the fetch and the enrichment,
\* one after the other
C24_Witness ==
    /\ IsLookupOf("Vanity")
    /\ EndedOk
    /\ Len(calls) = 5
    /\ NumIssued("resolve_url") = 3

----------------------------------------------------------------------------
(* C25 (under SpecEnrich) *)

\* the call read the 200 body `r` to the end: it returned Ok and the body
\* redirects nowhere else
EnrichedFrom(r) ==
    /\ pc = "enriched"
    /\ calls[1].out = Some(Ok(<<>>))
    /\ r \in BodiesRead
    /\ HasRedirectTarget(r) => RedirectTarget(r) = GivenChannel.user_id

\* the badge image name of a header: the first source of the first attachment
\* run, if there is such a run
BadgeName(header) ==
    IF header.attachment_runs \in {None, Some(<<>>)}
    THEN "(none)"
    ELSE Head(Head(Unwrap(header.attachment_runs)).sources)

\* C25: on a successful non-redirect enrichment whose response has a header,
\* verification is set from the badge image name of the first attachment run:
\* "AUDIO_BADGE" gives OAC, "CHECK_CIRCLE_FILLED" gives Verified, any other
\* name or no attachment run gives None; when the response has no header
\* (and redirects nowhere else) the enrichment still succeeds and leaves
\* verification as it was.
C25_VerificationFromBadge ==
    \A r \in BodiesRead :
        /\ (EnrichedFrom(r) /\ IsSome(r.header)) =>
              Unwrap(channel).verification =
                 Some(CASE BadgeName(Unwrap(r.header)) = "AUDIO_BADGE" -> "OAC"
                        [] BadgeName(Unwrap(r.header)) = "CHECK_CIRCLE_FILLED" -> "Verified"
                        [] OTHER -> "None")
        /\ (r.header = None /\ (HasRedirectTarget(r) => RedirectTarget(r) = GivenChannel.user_id)) =>
              /\ EnrichedFrom(r)
              /\ Unwrap(channel).verification = GivenChannel.verification

\* a channel given as Verified whose answer has an unknown badge in its first
\* attachment run and the artist badge in its second: verification is None
C25_Witness ==
    /\ pc = "enriched"
    /\ GivenChannel.verification = Some("Verified")
    /\ \E r \in BodiesRead :
        /\ EnrichedFrom(r)
        /\ IsSome(r.header)
        /\ BadgeName(Unwrap(r.header)) = "OTHER_BADGE"
        /\ Len(Unwrap(Unwrap(r.header).attachment_runs)) = 2
    /\ Unwrap(channel).verification = Some("None")

----------------------------------------------------------------------------
(* C26 (under SpecEnrich) *)

\* the owner URLs of the body `r`, none when the list or the metadata is absent
OwnerUrlsOf(r) ==
    IF IsSome(r.metadata) /\ IsSome(Unwrap(r.metadata).owner_urls)
    THEN Unwrap(Unwrap(r.metadata).owner_urls)
    ELSE <<>>

\* the places of the owner URLs that match the @-handle pattern
HandlePlaces(urls) == {i \in 1..Len(urls) : StartsWith(urls[i], HandleUrlPrefix)}

\* C26: on a successful non-redirect enrichment the channel's handle becomes
\* the handle of the first owner URL, in list order, that matches the @-handle
\* pattern, whatever handle the channel had; when no owner URL matches, or the
\* list is absent, the handle stays as it was.
C26_FirstOwnerHandleWins ==
    \A r \in BodiesRead :
        EnrichedFrom(r) =>
            LET urls == OwnerUrlsOf(r)
            IN  IF HandlePlaces(urls) = {}
                THEN Unwrap(channel).handle = GivenChannel.handle
                ELSE LET first == CHOOSE i \in HandlePlaces(urls) :
                                      \A j \in HandlePlaces(urls) : i <= j
                     IN  /\ IsSome(Unwrap(channel).handle)
                         /\ HandleUrlPrefix \o Unwrap(Unwrap(channel).handle) = urls[first]

\* a channel given with a handle, two handle URLs in the list after another
\* URL: the handle of the first of the two has replaced it
C26_Witness ==
    /\ pc = "enriched"
    /\ GivenChannel.handle = Some(<<"h", "1">>)
    /\ \E r \in BodiesRead :
        /\ EnrichedFrom(r)
        /\ Cardinality(HandlePlaces(OwnerUrlsOf(r))) = 2
        /\ 1 \notin HandlePlaces(OwnerUrlsOf(r))
    /\ Unwrap(channel).handle = Some(<<"h", "3">>)

----------------------------------------------------------------------------
(* C27 *)

\* in a direct lookup the re-resolution of the channel's handle returned the
\* error `e`
HandleReResolutionFailed(e) ==
    /\ HandleReResolved
    /\ Unwrap(calls[1].out).ok
    /\ IsSome(Unwrap(channel).handle)
    /\ calls[3].call = ResolveCall(HandleUrl(Unwrap(Unwrap(channel).handle)))
    /\ calls[3].out = Some(Err(e))

\* C27: in a Username, Handle or ChannelId lookup whose channel fetch
\* succeeded and whose channel carries a handle, an error returned by the
\* re-resolution of youtube.com/@<handle> fails the whole request with that
\* error's classification (not-found answers 404, an unknown status 500), and
\* the fetched channel is not returned.
C27_HandleResolutionErrorFails ==
    \A e \in YouTubeError :
        HandleReResolutionFailed(e) =>
            /\ pc = "done"
            /\ result = Some(Err(ApiYouTubeError(e)))
            /\ Unwrap(response).status = TabulatedStatus(e.kind)
            /\ Unwrap(response).status # 200
            /\ Unwrap(response).body = None

\* the channel was fetched and enriched, and the re-resolution of its handle
\* was answered 404
C27_Witness ==
    /\ HandleReResolutionFailed(NotFound)
    /\ Unwrap(calls[2].out).ok
    /\ AnsweredStatus(calls[3], 404)
    /\ EndedNotFound

----------------------------------------------------------------------------
(* C28 *)

\* the i-th answered call is a channel fetch that returned the error `e`
FetchFailedAt(i, e) ==
    /\ calls[i].call.op = "get_channel"
    /\ calls[i].out = Some(Err(e))

\* C28: within a channel lookup a subscriptions call is issued only in a
\* ChannelId lookup whose direct fetch was classified NotFound; a ChannelId
\* fetch that fails with any other classification ends the request with that
\* classification and without probe; a NotFound of the channel fetch of a
\* CustomUrl, Vanity, Username or Handle lookup ends the request with the
\* plain not-found error and without probe.
C28_ProbeOnlyAfterChannelIdNotFound ==
    IsChannelLookup =>
        /\ "get_subscriptions" \in OpsIssued => ChannelIdFetchNotFound
        /\ \A i \in 1..Len(calls) : \A e \in YouTubeError :
              (FetchFailedAt(i, e) /\ ~ChannelIdFetchNotFound) =>
                  /\ pc = "done"
                  /\ Len(calls) = i
                  /\ "get_subscriptions" \notin OpsIssued
                  /\ result = Some(Err(ApiYouTubeError(e)))
                  /\ Unwrap(response).status = TabulatedStatus(e.kind)
                  /\ e = NotFound =>
                        /\ EndedNotFound
                        /\ Unwrap(response) = YouTubeErrorResponse(NotFound)

\* a ChannelId lookup whose fetch was answered 403: it ended as Forbidden
\* after that one call
C28_Witness ==
    /\ IsLookupOf("ChannelId")
    /\ pc = "done"
    /\ Len(calls) = 1
    /\ FetchFailedAt(1, Forbidden)
    /\ Unwrap(response).status = 403

----------------------------------------------------------------------------
(* C29 (under SpecEnrich) *)

\* the answer of the call is one of the failures: no answer at all, a status
\* other than 200, or a 200 whose body does not decode
EnrichmentAnswerFails ==
    \/ ~calls[1].answer.net
    \/ ~AnsweredStatus(calls[1], 200)
    \/ calls[1].answer.body.kind # "json"

\* C29: whenever enrich_channel_data returns an error - and it does on a
\* transport failure, on every status other than 200 and on a 200 body that
\* does not decode - the channel record passed to it is left completely
\* unchanged: no enrichment-only field and no handle is modified.
C29_FailedEnrichmentChangesNothing ==
    pc \in {"enriched", "aborted"} =>
        /\ EnrichmentAnswerFails =>
              (pc = "enriched" /\ IsSome(calls[1].out) /\ ~Unwrap(calls[1].out).ok)
        /\ (IsSome(calls[1].out) /\ ~Unwrap(calls[1].out).ok) =>
              /\ EnrichmentAnswerFails
              /\ channel = Some(GivenChannel)

\* a channel given with verification, flag, blocked countries and handle, and
\* a 503 answer: the call returned an error and the channel is as given
C29_Witness ==
    /\ pc = "enriched"
    /\ AnsweredStatus(calls[1], 503)
    /\ calls[1].out = Some(Err(UnknownStatusCode(503)))
    /\ GivenChannel.verification = Some("Verified")
    /\ GivenChannel.handle = Some(<<"h", "1">>)
    /\ channel = Some(GivenChannel)

----------------------------------------------------------------------------
(* C30 (under SpecEnrich) *)

\* C30: for every 200 answer that decodes, enrich_channel_data returns a
\* result, Ok or Err, and does not abort - also when the first attachment run
\* of the header has an empty image-source list.
C30_DecodedAnswerAlwaysReturns ==
    BodiesRead # {} =>
        /\ pc = "enriched"
        /\ IsSome(calls[1].out)

====
